---- MODULE Spec2Model ----
(***************************************************************************)
(* Frontage propagation, subdivision and electrical-node sharing of the    *)
(* cadastral mapping application (subdivision-layer.js,                    *)
(* electrical-infrastructure.js, cadastral-features.js).                   *)
(*                                                                         *)
(* Geometry is carried on an integer grid of metres in one projected       *)
(* coordinate system (wkid 102100), so ensureWebMercator and the defensive *)
(* re-projections are the identity branch of the code.  Points are [x, y]  *)
(* pairs as in the source; distances are compared through their squares.   *)
(* Point markers, symbols, console output and DOM updates are rendering    *)
(* only and are not part of the state.                                     *)
(***************************************************************************)
EXTENDS Integers, Sequences, FiniteSets, TLC

\* ------------------------------------------------------------------ bounds
\* most completed subdivision lines kept on the subdivision layer
MaxLines == 2
\* most points of the in-progress line
MaxPts == 3
\* most subdivision completions in one behaviour
MaxCompletions == 1
\* map clicks handled in subdivision mode in one session
MaxClicks == 4
\* map clicks handled outside subdivision mode in one session
MaxSelections == 3
MaxNodeClock == 2

\* ------------------------------------------------------- program constants
\* handleSubdivisionClick: snap distance of an inside click, metres
SnapDistance == 5
\* edgeMatchesFrontageLine: distanceThreshold, metres
distanceThreshold == 2
\* NODE_CONFIG.SHARING_THRESHOLD, metres
SHARING_THRESHOLD == 30
\* NODE_CONFIG.INSET_DISTANCE, metres
INSET_DISTANCE == 10


\* ---------------------------------------------------------------- helpers
Min2(a, b) == IF a <= b THEN a ELSE b
Max2(a, b) == IF a >= b THEN a ELSE b
Clamp(v, lo, hi) == Max2(lo, Min2(v, hi))
Last(s) == s[Len(s)]
Reverse(s) == [i \in 1..Len(s) |-> s[Len(s) + 1 - i]]

RECURSIVE FlattenSeq(_)
FlattenSeq(ss) == IF ss = <<>> THEN <<>> ELSE Head(ss) \o FlattenSeq(Tail(ss))

\* ------------------------------------------------- geometry engine (black box)
\* squared euclidean distance of two points
DistSq(p, q) == (p[1] - q[1]) * (p[1] - q[1]) + (p[2] - q[2]) * (p[2] - q[2])

\* geometryEngine.nearestCoordinate(edge, point) for an axis-parallel edge:
\* the point of the segment a-b closest to p
NearestOnSegment(a, b, p) ==
    <<Clamp(p[1], Min2(a[1], b[1]), Max2(a[1], b[1])),
      Clamp(p[2], Min2(a[2], b[2]), Max2(a[2], b[2]))>>

\* p lies on the closed segment a-b
OnSegment(a, b, p) ==
    /\ (b[1] - a[1]) * (p[2] - a[2]) = (b[2] - a[2]) * (p[1] - a[1])
    /\ Min2(a[1], b[1]) <= p[1] /\ p[1] <= Max2(a[1], b[1])
    /\ Min2(a[2], b[2]) <= p[2] /\ p[2] <= Max2(a[2], b[2])

\* squared distance of point p to the segment a-b as a fraction <<num, den>>:
\* to the foot of the perpendicular when it falls on the segment, else to an end
SegDistSq(a, b, p) ==
    LET dx == b[1] - a[1]
        dy == b[2] - a[2]
        len2 == dx * dx + dy * dy
        dot == (p[1] - a[1]) * dx + (p[2] - a[2]) * dy
        cross == (p[1] - a[1]) * dy - (p[2] - a[2]) * dx
    IN  IF len2 = 0 THEN <<DistSq(p, a), 1>>
        ELSE IF dot <= 0 THEN <<DistSq(p, a), 1>>
        ELSE IF dot >= len2 THEN <<DistSq(p, b), 1>>
        ELSE <<cross * cross, len2>>

\* comparison of two such fractions
FracLess(f, g) == f[1] * g[2] < g[1] * f[2]
FracLeq(f, g) == f[1] * g[2] <= g[1] * f[2]

\* geometryEngine.distance(point, polyline, "meters"), squared: the least
\* over the segments of the path
RECURSIVE PathDistSq(_, _)
PathDistSq(path, p) ==
    IF Len(path) = 1 THEN <<DistSq(p, path[1]), 1>>
    ELSE LET d == SegDistSq(path[1], path[2], p)
         IN  IF Len(path) = 2 THEN d
             ELSE LET r == PathDistSq(Tail(path), p)
                  IN  IF FracLeq(d, r) THEN d ELSE r

\* geometryEngine.distance(point, geometry, "meters") <= t
distanceWithin(p, path, t) == FracLeq(PathDistSq(path, p), <<t * t, 1>>)

\* p lies on the boundary of the ring
OnRing(ring, p) ==
    \E i \in 1..(Len(ring) - 1) : OnSegment(ring[i], ring[i + 1], p)

\* edge i of the ring is crossed by the ray from p towards +x
RayCrosses(a, b, p) ==
    /\ (a[2] > p[2]) # (b[2] > p[2])
    /\ IF b[2] > a[2]
         THEN (p[1] - a[1]) * (b[2] - a[2]) < (b[1] - a[1]) * (p[2] - a[2])
         ELSE (p[1] - a[1]) * (b[2] - a[2]) > (b[1] - a[1]) * (p[2] - a[2])

\* geometryEngine.contains(polygon, point): the point is interior to the ring
\* (even-odd rule; a point on the boundary is not contained)
contains(ring, p) ==
    /\ ~OnRing(ring, p)
    /\ Cardinality({i \in 1..(Len(ring) - 1) :
                       RayCrosses(ring[i], ring[i + 1], p)}) % 2 = 1

\* ------------------------------------------------------------ the parcels
Null == [null |-> TRUE]
NoGeometry == <<>>

\* attribute values as JavaScript has them: a number, a string, or undefined
\* for an attribute the feature does not carry
JSNumber(n) == <<"number", n>>
JSString(s) == <<"string", s>>
Undefined == <<"undefined">>

\* the selectable cadastral parcel: a 12 m square, ring closed (first = last)
ParcelRing == << <<0, 0>>, <<12, 0>>, <<12, 12>>, <<0, 12>>, <<0, 0>> >>
ParcelGraphic == [geometry |-> ParcelRing, attributes |-> [objectid |-> <<"P", 1>>]]

\* a second parcel further along the same road
ParcelRingB == << <<40, 0>>, <<52, 0>>, <<52, 12>>, <<40, 12>>, <<40, 0>> >>
ParcelGraphicB == [geometry |-> ParcelRingB, attributes |-> [objectid |-> <<"P", 2>>]]
FrontOfB == [geometry |-> << <<40, 0>>, <<52, 0>> >>,
             attributes |-> [usage_code |-> JSNumber(1), line_no |-> "D"]]

\* boundary lines of the parcel classified as frontage (cached at selection)
FrontA == [geometry |-> << <<0, 0>>, <<12, 0>> >>,
           attributes |-> [usage_code |-> JSNumber(1), line_no |-> "A"]]
FrontB == [geometry |-> << <<6, 0>>, <<12, 0>> >>,
           attributes |-> [render_normal |-> JSString("1-Y"), line_no |-> "B"]]
FrontC == [geometry |-> << <<0, 0>>, <<0, 12>> >>,
           attributes |-> [usage_code |-> JSString("1-N"), line_no |-> "C"]]
FrontageChoices == {<<>>, <<FrontB, FrontA, FrontC>>}

\* map clicks offered to the subdivision click handler:
\* outside left, centre (6 m from every edge), inside 2 m from the right
\* edge, inside exactly 5 m from the left edge
Clicks == {<<-3, 6>>, <<6, 6>>, <<10, 6>>, <<5, 6>>}

VARIABLES
    subdivisionMode,          \* subdivision-layer.js: let subdivisionMode
    currentPolygonGeometry,   \* let currentPolygonGeometry (NoGeometry = null)
    currentPolygonGraphic,    \* let currentPolygonGraphic (Null = null)
    drawingPoints,            \* let drawingPoints
    subdivisionLayer,         \* appState.layers.subdivision: line and sub-polygon graphics
    currentPolygon,           \* appState.currentPolygon
    currentFrontageLines,     \* appState.currentFrontageLines
    subPolygonData,           \* appState.subPolygonData (<<>> = null)
    electricalNodes,          \* electrical-infrastructure.js: let electricalNodes
    pendingCalls,             \* generateOrFindConnectionNode calls awaiting the pillar query
    nodeClock,                \* stands for Date.now()/Math.random() in generated node ids
    pillarsLayer,             \* appState.layers.pillars is set (TRUE) or null (FALSE)
    completions,              \* number of completeSubdivision runs since the initial state
    clicks,                   \* number of clicks handled by handleSubdivisionClick so far
    lastClick,                \* history: the click handled last and what came of it
    lastCompletion,           \* history: how the last completeSubdivision run went
    lastAssign,               \* history: the last generateOrFindConnectionNode call resolved
    pendingQueries,           \* cadastral line queries of parcel selections not yet answered
    selections,               \* number of map clicks outside subdivision mode so far
    lastSelection,            \* history: the registry around the last such click
    lastQuery,                \* history: the cadastral line query answered last
    setbackLayer,             \* appState.layers.setback: the zone graphics shown
    matchEdge,                \* edgeMatchesFrontageLine: the edge {start, end} passed
    matchLine,                \* edgeMatchesFrontageLine: the frontage line geometry passed
    matchResult,              \* what edgeMatchesFrontageLine returned (Null before the call)
    lineFeature,              \* a boundary line feature passed to the line classifiers
    lineResult,               \* what the classifiers returned (Null before the call)
    clicksSinceClear,         \* history: the map clicks handled since clearSubdivisions ran (Null: it has not)
    sessionLines              \* history: the line graphics drawn since the mode was entered or the layer cleared

vars == <<subdivisionMode, currentPolygonGeometry, currentPolygonGraphic,
          drawingPoints, subdivisionLayer, currentPolygon, currentFrontageLines,
          subPolygonData, electricalNodes, pendingCalls, nodeClock, pillarsLayer,
          completions, clicks, lastClick, lastCompletion, lastAssign,
          pendingQueries, selections, lastSelection, lastQuery, setbackLayer,
          matchEdge, matchLine, matchResult, lineFeature, lineResult,
          clicksSinceClear, sessionLines>>

subdivisionVars == <<subdivisionMode, currentPolygonGeometry, currentPolygonGraphic,
                     drawingPoints, subdivisionLayer, clicksSinceClear, sessionLines>>
registryVars == <<electricalNodes, pendingCalls, nodeClock, lastAssign>>
selectionVars == <<pendingQueries, selections, lastSelection, lastQuery, setbackLayer>>
matchVars == <<matchEdge, matchLine, matchResult, lineFeature, lineResult>>

\* ------------------------------------------------------ subdivision drawing
\* findNearestEdgePoint: the nearest coordinate of each edge of the outer
\* ring in turn, kept when strictly closer than the best so far
RECURSIVE NearestScan(_, _, _, _, _)
NearestScan(ring, clickPoint, i, nearestPoint, minDistance) ==
    IF i > Len(ring) - 1 THEN nearestPoint
    ELSE LET nearestOnEdge == NearestOnSegment(ring[i], ring[i + 1], clickPoint)
             d == DistSq(clickPoint, nearestOnEdge)
         IN  IF minDistance < 0 \/ d < minDistance
               THEN NearestScan(ring, clickPoint, i + 1, nearestOnEdge, d)
               ELSE NearestScan(ring, clickPoint, i + 1, nearestPoint, minDistance)

findNearestEdgePoint(clickPoint, polygonGeometry) ==
    NearestScan(polygonGeometry, clickPoint, 1, <<>>, -1)

\* a handler without the first-point rule: the first click is classified as
\* any later click is
ClassifyClickLikeLater(mapPoint, polygonGeometry, nPoints) ==
    IF contains(polygonGeometry, mapPoint)
       /\ DistSq(mapPoint, findNearestEdgePoint(mapPoint, polygonGeometry))
             >= SnapDistance * SnapDistance
      THEN [point |-> mapPoint, type |-> "midpoint",
            snapped |-> FALSE, originalClick |-> mapPoint]
      ELSE [point |-> findNearestEdgePoint(mapPoint, polygonGeometry), type |-> "boundary",
            snapped |-> TRUE, originalClick |-> mapPoint]

\* handleSubdivisionClick lines 109-138: the point kept for a click
ClassifyClick(mapPoint, polygonGeometry, nPoints) ==
    LET isInside == contains(polygonGeometry, mapPoint)
        nearestEdgePoint == findNearestEdgePoint(mapPoint, polygonGeometry)
        distanceToEdgeSq == DistSq(mapPoint, nearestEdgePoint)
        snap == [point |-> nearestEdgePoint, type |-> "boundary",
                 snapped |-> TRUE, originalClick |-> mapPoint]
    IN  IF nPoints = 0 THEN snap
        ELSE IF ~isInside THEN snap
        ELSE IF distanceToEdgeSq < SnapDistance * SnapDistance THEN snap
        ELSE [point |-> mapPoint, type |-> "midpoint",
              snapped |-> FALSE, originalClick |-> mapPoint]

\* a type string that names the two ends only
subdivisionTypeOfEnds(types) ==
    <<"boundary", "to", "boundary">>

\* drawSubdivisionLine lines 244-251: the type string, as its words
RECURSIVE JoinTo(_)
JoinTo(types) ==
    IF types = <<>> THEN <<>>
    ELSE IF Len(types) = 1 THEN types
    ELSE <<Head(types), "to">> \o JoinTo(Tail(types))

subdivisionTypeOf(types) ==
    IF \A i \in 1..Len(types) : types[i] = "boundary"
      THEN <<"boundary", "to", "boundary">>
      ELSE <<"boundary", "to">> \o JoinTo(SubSeq(types, 2, Len(types) - 1))
           \o <<"to", "boundary">>

\* drawSubdivisionLine lines 225-262: the line graphic of the accumulated points
LineGraphic(points) ==
    [kind |-> "line",
     paths |-> [i \in 1..Len(points) |-> points[i].point],
     subdivisionType |-> subdivisionTypeOf([i \in 1..Len(points) |-> points[i].type]),
     pointCount |-> Len(points)]

\* getSubdivisionLines: the line graphics of the layer, in layer order
getSubdivisionLines == SelectSeq(subdivisionLayer, LAMBDA g : g.kind = "line")

\* ------------------------------------------------ electrical node registry
\* integer square root, for the length of a frontage segment
RECURSIVE IsqrtFrom(_, _)
IsqrtFrom(n, r) == IF (r + 1) * (r + 1) > n THEN r ELSE IsqrtFrom(n, r + 1)
Isqrt(n) == IsqrtFrom(n, 0)

\* unionFrontageLines: the union of the frontage geometries, kept as the
\* list of their paths
unionFrontageLines(frontageLines) ==
    [i \in 1..Len(frontageLines) |-> frontageLines[i].geometry]

\* geometryEngine.distance(point, frontageUnion, "meters"), squared
RECURSIVE UnionDistSq(_, _)
UnionDistSq(frontageUnion, p) ==
    LET d == PathDistSq(Head(frontageUnion), p)
    IN  IF Len(frontageUnion) = 1 THEN d
        ELSE LET r == UnionDistSq(Tail(frontageUnion), p)
             IN  IF FracLeq(d, r) THEN d ELSE r

\* geometryEngine.contains(buffer(frontageUnion, SHARING_THRESHOLD), position)
InFrontageBuffer(frontageUnion, position) ==
    FracLeq(UnionDistSq(frontageUnion, position),
            <<SHARING_THRESHOLD * SHARING_THRESHOLD, 1>>)

\* calculateNodePosition(startPoint, endPoint, polygonGeometry, side)
calculateNodePosition(startPoint, endPoint, polygonGeometry, side) ==
    LET edgePoint == IF side = "left" THEN startPoint ELSE endPoint
        dx == endPoint[1] - startPoint[1]
        dy == endPoint[2] - startPoint[2]
        length == Isqrt(dx * dx + dy * dy)
        offX == IF length = 0 THEN 0 ELSE ((0 - dy) * INSET_DISTANCE) \div length
        offY == IF length = 0 THEN 0 ELSE (dx * INSET_DISTANCE) \div length
        testPoint1 == <<edgePoint[1] + offX, edgePoint[2] + offY>>
        testPoint2 == <<edgePoint[1] - offX, edgePoint[2] - offY>>
    IN  IF contains(polygonGeometry, testPoint1) THEN testPoint1
        ELSE IF contains(polygonGeometry, testPoint2) THEN testPoint2
        ELSE edgePoint

\* calculatePotentialNodePositions: first-left, first-right, last-left, last-right
calculatePotentialNodePositions(frontageLines, workingPolygonGeometry) ==
    LET first == frontageLines[1].geometry
        last == frontageLines[Len(frontageLines)].geometry
    IN  <<calculateNodePosition(first[1], Last(first), workingPolygonGeometry, "left"),
          calculateNodePosition(first[1], Last(first), workingPolygonGeometry, "right"),
          calculateNodePosition(last[1], Last(last), workingPolygonGeometry, "left"),
          calculateNodePosition(last[1], Last(last), workingPolygonGeometry, "right")>>

\* createElectricalNode(position, polygonId, side, modules, isPotential)
createElectricalNode(position, polygonId, side, isPotential, clock) ==
    [id |-> <<IF isPotential THEN "POTENTIAL" ELSE "NODE", clock>>,
     type |-> IF isPotential THEN "potential_service_point" ELSE "service_point",
     position |-> position,
     properties |-> <<polygonId>>,
     side |-> side,
     isPotential |-> isPotential,
     isPillar |-> FALSE,
     propertyCentroids |-> {}]

\* findNearbyConnectionNode lines 450-461: the entry made for a pillar feature
newPillarNode(pillarFeature) ==
    [id |-> pillarFeature.pick_id,
     type |-> "pillar",
     position |-> pillarFeature.geometry,
     properties |-> <<>>,
     side |-> "null",
     isPotential |-> FALSE,
     isPillar |-> TRUE,
     propertyCentroids |-> {}]

includes(properties, polygonId) == \E i \in 1..Len(properties) : properties[i] = polygonId

\* removePotentialNodesForProperty(polygonId), on a node list
removePotentialNodesForProperty(nodes, polygonId) ==
    SelectSeq(nodes, LAMBDA node : ~(node.isPotential /\ includes(node.properties, polygonId)))

\* a removal that removes nothing
removeNoNodes(nodes) == SubSeq(nodes, 1, Len(nodes))

\* a removal that empties the registry
removeAllNodes(nodes) == SubSeq(nodes, 1, 0)

\* removeAllPotentialNodes(), on a node list
removeAllPotentialNodes(nodes) ==
    SelectSeq(nodes, LAMBDA node : ~node.isPotential)

\* position of the first node with the given id (0 when none): electricalNodes.find
FindNode(nodes, id) ==
    LET at == {i \in 1..Len(nodes) : nodes[i].id = id}
    IN  IF at = {} THEN 0 ELSE CHOOSE i \in at : \A j \in at : i <= j

NoBest == [id |-> <<"none", 0>>, dist |-> <<-1, 1>>]

\* findNearbyConnectionNode lines 386-414: the scan of the nodes in memory.
\* Gives [served |-> id of a node already serving the polygon, or NoBest.id,
\*        best |-> the closest node in the buffer seen so far]
RECURSIVE MemoryScan(_, _, _, _, _)
MemoryScan(nodes, i, frontageUnion, currentPolygonId, best) ==
    IF i > Len(nodes) THEN [served |-> NoBest.id, best |-> best]
    ELSE LET node == nodes[i]
         IN  IF node.isPotential
               THEN MemoryScan(nodes, i + 1, frontageUnion, currentPolygonId, best)
             ELSE IF includes(node.properties, currentPolygonId)
               THEN [served |-> node.id, best |-> best]
             ELSE IF InFrontageBuffer(frontageUnion, node.position)
               THEN LET distance == UnionDistSq(frontageUnion, node.position)
                    IN  IF best.id = NoBest.id \/ FracLess(distance, best.dist)
                          THEN MemoryScan(nodes, i + 1, frontageUnion, currentPolygonId,
                                          [id |-> node.id, dist |-> distance])
                          ELSE MemoryScan(nodes, i + 1, frontageUnion, currentPolygonId, best)
             ELSE MemoryScan(nodes, i + 1, frontageUnion, currentPolygonId, best)

\* the node list with the node of the given id changed by Op
MapNode(nodes, id, Op(_)) ==
    [i \in 1..Len(nodes) |-> IF nodes[i].id = id THEN Op(nodes[i]) ELSE nodes[i]]

NodeById(nodes, id) == nodes[FindNode(nodes, id)]

\* a loop over the pillar features that keeps the pillar farthest from the
\* frontage instead of the closest
RECURSIVE PillarLoopFarthest(_, _, _, _, _, _)
PillarLoopFarthest(nodes, features, k, frontageUnion, currentPolygonId, best) ==
    IF k > Len(features) THEN [nodes |-> nodes, served |-> NoBest.id, best |-> best]
    ELSE IF FindNode(nodes, features[k].pick_id) # 0
      THEN PillarLoopFarthest(
               nodes, features, k + 1, frontageUnion, currentPolygonId,
               IF best.id = NoBest.id
                  \/ FracLess(best.dist, UnionDistSq(frontageUnion, features[k].geometry))
                 THEN [id |-> features[k].pick_id,
                       dist |-> UnionDistSq(frontageUnion, features[k].geometry)]
                 ELSE best)
      ELSE PillarLoopFarthest(
               Append(nodes, newPillarNode(features[k])), features, k + 1, frontageUnion,
               currentPolygonId,
               IF best.id = NoBest.id
                  \/ FracLess(best.dist, UnionDistSq(frontageUnion, features[k].geometry))
                 THEN [id |-> features[k].pick_id,
                       dist |-> UnionDistSq(frontageUnion, features[k].geometry)]
                 ELSE best)

\* a loop that registers every pillar of the answer without looking it up
RECURSIVE PillarLoopRegisteringAgain(_, _, _, _, _, _)
PillarLoopRegisteringAgain(nodes, features, k, frontageUnion, currentPolygonId, best) ==
    IF k > Len(features) THEN [nodes |-> nodes, served |-> NoBest.id, best |-> best]
    ELSE PillarLoopRegisteringAgain(
             Append(nodes, newPillarNode(features[k])), features, k + 1, frontageUnion,
             currentPolygonId,
             IF best.id = NoBest.id
                \/ FracLess(UnionDistSq(frontageUnion, features[k].geometry), best.dist)
               THEN [id |-> features[k].pick_id,
                     dist |-> UnionDistSq(frontageUnion, features[k].geometry)]
               ELSE best)

\* findNearbyConnectionNode lines 429-473: the loop over the pillar features.
\* Gives [nodes, served, best]: served is the id of a tracked pillar already
\* serving the polygon (the loop returns at once), or NoBest.id
RECURSIVE PillarLoop(_, _, _, _, _, _)
PillarLoop(nodes, features, k, frontageUnion, currentPolygonId, best) ==
    IF k > Len(features) THEN [nodes |-> nodes, served |-> NoBest.id, best |-> best]
    ELSE LET pickId == features[k].pick_id
             at == FindNode(nodes, pickId)
         IN  IF at # 0
               THEN IF includes(nodes[at].properties, currentPolygonId)
                      THEN [nodes |-> nodes, served |-> pickId, best |-> best]
                      ELSE LET distance == UnionDistSq(frontageUnion, nodes[at].position)
                           IN  PillarLoop(nodes, features, k + 1, frontageUnion, currentPolygonId,
                                          IF best.id = NoBest.id \/ FracLess(distance, best.dist)
                                            THEN [id |-> pickId, dist |-> distance]
                                            ELSE best)
               ELSE LET pillar == newPillarNode(features[k])
                        distance == UnionDistSq(frontageUnion, pillar.position)
                    IN  PillarLoop(Append(nodes, pillar), features, k + 1, frontageUnion,
                                   currentPolygonId,
                                   IF best.id = NoBest.id \/ FracLess(distance, best.dist)
                                     THEN [id |-> pickId, dist |-> distance]
                                     ELSE best)

\* a push that replaces the served list instead of extending it
AddPropertyReplacing(node, polygonId) ==
    [node EXCEPT !.properties = <<polygonId>>]

\* bestNode.properties.push(currentPolygonId) when absent (lines 479-485)
AddProperty(node, polygonId) ==
    IF includes(node.properties, polygonId) THEN node
    ELSE [node EXCEPT !.properties = Append(@, polygonId)]

\* findNearbyConnectionNode lines 466-487: what is returned once the loop
\* over the pillar features has ended.  Gives [nodes, found]: found is the id
\* of the node returned, or NoBest.id
returnOfFindNearby(loop, currentPolygonId) ==
    IF loop.served # NoBest.id
      THEN [nodes |-> loop.nodes, found |-> loop.served]
    ELSE IF loop.best.id # NoBest.id
      THEN [nodes |-> MapNode(loop.nodes, loop.best.id,
                              LAMBDA n : AddProperty(n, currentPolygonId)),
            found |-> loop.best.id]
    ELSE [nodes |-> loop.nodes, found |-> NoBest.id]

\* a finish that forgets the node found in memory when the query is rejected
findNearbyForgettingBest(nodes, frontageLines, currentPolygonId, best, answer) ==
    returnOfFindNearby(
        IF answer.ok
          THEN PillarLoop(nodes, answer.features, 1, unionFrontageLines(frontageLines),
                          currentPolygonId, best)
          ELSE [nodes |-> nodes, served |-> NoBest.id, best |-> NoBest],
        currentPolygonId)

\* findNearbyConnectionNode from the pillar query's answer on (lines 426-487).
\* answer.ok = FALSE is a rejected query, caught at line 474.
findNearbyAfterQuery(nodes, frontageLines, currentPolygonId, best, answer) ==
    returnOfFindNearby(
        IF answer.ok
          THEN PillarLoop(nodes, answer.features, 1, unionFrontageLines(frontageLines),
                          currentPolygonId, best)
          ELSE [nodes |-> nodes, served |-> NoBest.id, best |-> best],
        currentPolygonId)

\* a creation that leaves the parcel's earlier potential nodes in place
createPotentialNodeKeepingOld(nodes, potentialPositions, polygonId, clock) ==
    Append(nodes,
           [createElectricalNode(potentialPositions[2], polygonId, "right", TRUE, clock)
               EXCEPT !.propertyCentroids = {polygonId}])

\* createAndRenderPotentialNode(potentialPositions, polygonId), with the
\* centroid stored by its caller (generateOrFindConnectionNode lines 198-203)
createAndRenderPotentialNode(nodes, potentialPositions, polygonId, clock) ==
    LET potentialNode == createElectricalNode(potentialPositions[2], polygonId,
                                              "right", TRUE, clock)
    IN  Append(removePotentialNodesForProperty(nodes, polygonId),
               [potentialNode EXCEPT !.propertyCentroids = {polygonId}])

\* generateOrFindConnectionNode from the return of findNearbyConnectionNode
\* on (lines 179-205).  Gives [nodes, clock, id]
generateAfterFind(nodes, clock, polygonId, polygonGeometry, frontageLines, found) ==
    IF found # NoBest.id
      THEN [nodes |-> removePotentialNodesForProperty(
                         MapNode(nodes, found,
                                 LAMBDA n : [n EXCEPT !.propertyCentroids = @ \cup {polygonId}]),
                         polygonId),
            clock |-> clock,
            id |-> found]
      ELSE [nodes |-> createAndRenderPotentialNode(
                         nodes,
                         calculatePotentialNodePositions(frontageLines, polygonGeometry),
                         polygonId, clock + 1),
            clock |-> clock + 1,
            id |-> <<"POTENTIAL", clock + 1>>]

\* ------------------------------------------------- subdivision completion
\* geometryEngine.cut(polygon, line): the engine answers null, an empty list,
\* or the pieces.  The pieces are computed when both ends of the line lie on
\* the polygon's ring at different places and its inner points lie inside:
\* the piece left of the line first, then the piece right of it.
DistinctVertices(ring) == SubSeq(ring, 1, Len(ring) - 1)

\* the first edge of the ring that holds p (0 when none does)
EdgeOf(ring, p) ==
    LET on == {i \in 1..(Len(ring) - 1) : OnSegment(ring[i], ring[i + 1], p)}
    IN  IF on = {} THEN 0 ELSE CHOOSE i \in on : \A j \in on : i <= j

\* the ring's vertices passed going forward from a (on edge i) to b (on edge j)
ArcForward(ring, i, a, j, b) ==
    LET V == DistinctVertices(ring)
        m == Len(V)
        steps == IF i = j /\ DistSq(V[i], a) <= DistSq(V[i], b)
                   THEN 0
                   ELSE IF (j - i) % m = 0 THEN m ELSE (j - i) % m
    IN  [k \in 1..steps |-> V[((i + k - 1) % m) + 1]]

\* drop a point equal to the one before it
RECURSIVE Dedupe(_)
Dedupe(path) ==
    IF Len(path) <= 1 THEN path
    ELSE IF path[1] = path[2] THEN Dedupe(Tail(path))
    ELSE <<path[1]>> \o Dedupe(Tail(path))

CloseRing(path) ==
    LET d == Dedupe(path)
    IN  IF d[1] = Last(d) THEN d ELSE Append(d, d[1])

CanSplit(ring, path) ==
    LET a == path[1]
        b == Last(path)
    IN  /\ Len(path) >= 2
        /\ a # b
        /\ EdgeOf(ring, a) # 0 /\ EdgeOf(ring, b) # 0
        /\ \A k \in 2..(Len(path) - 1) : contains(ring, path[k])
        /\ Len(path) = 2 =>
             ~\E i \in 1..(Len(ring) - 1) :
                 OnSegment(ring[i], ring[i + 1], a) /\ OnSegment(ring[i], ring[i + 1], b)

SplitPieces(ring, path) ==
    LET a == path[1]
        b == Last(path)
        i == EdgeOf(ring, a)
        j == EdgeOf(ring, b)
        inner == SubSeq(path, 2, Len(path) - 1)
        right == CloseRing(<<a>> \o ArcForward(ring, i, a, j, b) \o <<b>>
                           \o Reverse(inner) \o <<a>>)
        left == CloseRing(<<b>> \o ArcForward(ring, j, b, i, a) \o <<a>>
                          \o inner \o <<b>>)
    IN  <<left, right>>

CutNull == [isNull |-> TRUE, polygons |-> <<>>]
CutEmpty == [isNull |-> FALSE, polygons |-> <<>>]
CutAnswers(ring, path) ==
    {CutNull, CutEmpty} \cup
    (IF CanSplit(ring, path)
       THEN {[isNull |-> FALSE, polygons |-> SplitPieces(ring, path)]}
       ELSE {})

\* a cut loop that takes the engine's answer as it is, failed or not
CutOneOrDrop(poly, cutResult) ==
    cutResult.polygons

\* completeSubdivision lines 331-343: one polygon cut by one line
CutOne(poly, cutResult) ==
    IF ~cutResult.isNull /\ Len(cutResult.polygons) > 0
      THEN cutResult.polygons
      ELSE <<poly>>

\* completeSubdivision lines 331-343: every polygon of the list cut by one
\* line; one engine answer is chosen for every cut and kept in answers
RECURSIVE CutByLine(_, _)
CutByLine(subPolygons, line) ==
    IF subPolygons = <<>> THEN {[polygons |-> <<>>, answers |-> <<>>]}
    ELSE {[polygons |-> CutOne(Head(subPolygons), r) \o rest.polygons,
           answers |-> <<r>> \o rest.answers] :
             r \in CutAnswers(Head(subPolygons), line.paths),
             rest \in CutByLine(Tail(subPolygons), line)}

\* completeSubdivision lines 328-346: the cut loop over the lines, in order
RECURSIVE CutLoop(_, _, _)
CutLoop(subPolygons, subdivisionLines, trace) ==
    IF subdivisionLines = <<>> THEN {[polygons |-> subPolygons, trace |-> trace]}
    ELSE UNION {CutLoop(step.polygons, Tail(subdivisionLines), Append(trace, step.answers)) :
                   step \in CutByLine(subPolygons, Head(subdivisionLines))}

\* extractPolygonEdges
extractPolygonEdges(polygon) ==
    [i \in 1..(Len(polygon) - 1) |-> [start |-> polygon[i], end |-> polygon[i + 1]]]

\* a matcher with an exclusive tolerance: distance < distanceThreshold
edgeMatchesBelowThreshold(edge, frontageLineGeometry) ==
    /\ FracLess(PathDistSq(frontageLineGeometry, edge.start),
                <<distanceThreshold * distanceThreshold, 1>>)
    /\ FracLess(PathDistSq(frontageLineGeometry, edge.end),
                <<distanceThreshold * distanceThreshold, 1>>)

\* a matcher that looks at the start of the edge only
edgeMatchesAtStart(edge, frontageLineGeometry) ==
    distanceWithin(edge.start, frontageLineGeometry, distanceThreshold)

\* edgeMatchesFrontageLine
edgeMatchesFrontageLine(edge, frontageLineGeometry) ==
    LET startClose == distanceWithin(edge.start, frontageLineGeometry, distanceThreshold)
        endClose == distanceWithin(edge.end, frontageLineGeometry, distanceThreshold)
    IN  startClose /\ endClose

\* an inner loop without the break: the last matching parent line wins
RECURSIVE LastMatch(_, _, _)
LastMatch(edge, parentFrontageLines, j) ==
    IF j > Len(parentFrontageLines) THEN <<>>
    ELSE IF LastMatch(edge, parentFrontageLines, j + 1) # <<>>
      THEN LastMatch(edge, parentFrontageLines, j + 1)
    ELSE IF edgeMatchesFrontageLine(edge, parentFrontageLines[j].geometry)
      THEN <<[geometry |-> <<edge.start, edge.end>>,
              attributes |-> parentFrontageLines[j].attributes]>>
      ELSE <<>>

\* calculateSubPolygonFrontage lines 428-448: the inner loop over the parent
\* frontage lines, broken at the first match
RECURSIVE FirstMatch(_, _, _)
FirstMatch(edge, parentFrontageLines, j) ==
    IF j > Len(parentFrontageLines) THEN <<>>
    ELSE IF edgeMatchesFrontageLine(edge, parentFrontageLines[j].geometry)
      THEN <<[geometry |-> <<edge.start, edge.end>>,
              attributes |-> parentFrontageLines[j].attributes]>>
      ELSE FirstMatch(edge, parentFrontageLines, j + 1)

\* calculateSubPolygonFrontage
calculateSubPolygonFrontage(subPolygon, parentFrontageLines) ==
    IF Len(parentFrontageLines) = 0 THEN <<>>
    ELSE LET subPolygonEdges == extractPolygonEdges(subPolygon)
         IN  FlattenSeq([i \in 1..Len(subPolygonEdges) |->
                            FirstMatch(subPolygonEdges[i], parentFrontageLines, 1)])

\* a value JavaScript's || passes over: an attribute that is absent, or the
\* number 0 (numeric ids are <<"P", n>>)
Falsy(attributes, name) ==
    name \notin DOMAIN attributes \/ attributes[name] = <<"P", 0>>

\* a || b || c || fallback over the attributes named
RECURSIVE FirstTruthy(_, _, _, _)
FirstTruthy(attributes, names, k, fallback) ==
    IF k > Len(names) THEN fallback
    ELSE IF Falsy(attributes, names[k]) THEN FirstTruthy(attributes, names, k + 1, fallback)
    ELSE attributes[names[k]]

\* the id attributes read in another order
IdAttributesUpperFirst == <<"OBJECTID", "__OBJECTID", "objectid">>

IdAttributes == <<"objectid", "__OBJECTID", "OBJECTID">>

\* the polygon id of generateOrFindConnectionNode (line 162):
\* objectid || __OBJECTID || OBJECTID, undefined when none is set
PolygonIdOf(graphic) == FirstTruthy(graphic.attributes, IdAttributes, 1, <<"undefined">>)

\* the parent id of completeSubdivision (line 357):
\* objectid || __OBJECTID || OBJECTID || 'Unknown'
OriginalPolygonIdOf(graphic) ==
    FirstTruthy(graphic.attributes, IdAttributes, 1, <<"Unknown">>)

\* SUB_<originalPolygonId>_<index>, index 0-based
SubPolygonId(originalPolygonId, index) == <<"SUB", originalPolygonId, index>>

\* completeSubdivision lines 353-376: one result per sub-polygon
SubPolygonResults(subPolygons, parentFrontageLines, polygonGraphic) ==
    [i \in 1..Len(subPolygons) |->
        [geometry |-> subPolygons[i],
         frontageLines |-> calculateSubPolygonFrontage(subPolygons[i], parentFrontageLines),
         index |-> i - 1,
         originalPolygonId |-> OriginalPolygonIdOf(polygonGraphic)]]

\* renderSubPolygons lines 532-560: the graphic of one result
SubPolygonGraphic(result, index) ==
    [kind |-> "subPolygon",
     geometry |-> result.geometry,
     subIndex |-> index,
     frontageCount |-> Len(result.frontageLines),
     objectid |-> SubPolygonId(result.originalPolygonId, index),
     originalPolygonId |-> result.originalPolygonId]


\* ------------------------------------------- calls of the node registry
\* One call of generateOrFindConnectionNode(polygonGraphic, frontageLines).
\* reg is [nodes, clock, pending, last]: the node list, the id clock, the
\* calls awaiting their pillar query, and the history of the call resolved last.
Resolution(call, nodes, id, queried, answer) ==
    [polygonId |-> call.polygonId,
     frontageLines |-> call.frontageLines,
     id |-> id,
     node |-> IF id = NoBest.id THEN Null ELSE NodeById(nodes, id),
     prior |-> call.prior,
     quiet |-> call.quiet,
     nodesAtStart |-> call.nodesAtStart,
     queried |-> queried,
     answer |-> answer]

NoAnswer == [ok |-> TRUE, features |-> <<>>]

\* the call resolved before this one started, without its own history
PriorOf(last) ==
    IF last = Null THEN <<>>
    ELSE <<[last EXCEPT !.prior = <<>>]>>

Disturb(pending) == [i \in 1..Len(pending) |-> [pending[i] EXCEPT !.quiet = FALSE]]

\* the registry once a call has run to its end
Resolved(call, gen, pending, queried, answer) ==
    [nodes |-> gen.nodes, clock |-> gen.clock, pending |-> Disturb(pending),
     last |-> Resolution(call, gen.nodes, gen.id, queried, answer)]

\* generateOrFindConnectionNode lines 179-205, after findNearbyConnectionNode
\* has returned find = [nodes, found]
AfterFind(reg, call, find, pending, queried, answer) ==
    Resolved(call,
             generateAfterFind(find.nodes, reg.clock, call.polygonId,
                               call.polygonGeometry, call.frontageLines, find.found),
             pending, queried, answer)

\* generateOrFindConnectionNode from the scan of the nodes in memory on: the
\* call waits for the pillar query when no node serves the polygon yet and a
\* pillar layer is set, and runs to its end otherwise
AfterScan(reg, call, scan, layerSet) ==
    IF scan.served = NoBest.id /\ layerSet
      THEN [reg EXCEPT !.pending = Append(@, [call EXCEPT !.best = scan.best])]
    ELSE IF scan.served # NoBest.id
      THEN AfterFind(reg, call, [nodes |-> reg.nodes, found |-> scan.served],
                     reg.pending, FALSE, NoAnswer)
    ELSE AfterFind(reg, call,
                   returnOfFindNearby([nodes |-> reg.nodes, served |-> NoBest.id,
                                       best |-> scan.best], call.polygonId),
                   reg.pending, FALSE, NoAnswer)

\* the record of a call at its start
CallRecord(reg, polygonId, polygonGeometry, frontageLines, caller) ==
    [polygonId |-> polygonId, polygonGeometry |-> polygonGeometry,
     frontageLines |-> frontageLines, caller |-> caller,
     best |-> NoBest, prior |-> PriorOf(reg.last), quiet |-> TRUE,
     nodesAtStart |-> reg.nodes]

\* a test that also takes a single frontage line for no frontage
NoFrontageOrSingle(frontageLines) == Len(frontageLines) <= 1

\* line 156: !frontageLines || frontageLines.length === 0 (a missing list and
\* an empty list are both the empty sequence)
NoFrontage(frontageLines) == Len(frontageLines) = 0

\* generateOrFindConnectionNode up to the await of the pillar query
\* (lines 155-177 and 376-426), and to its end when nothing is awaited; it
\* returns null at once when there is no frontage (lines 156-159)
StartCall(reg, polygonId, polygonGeometry, frontageLines, caller, layerSet) ==
    IF NoFrontage(frontageLines)
      THEN [reg EXCEPT !.last =
               Resolution(CallRecord(reg, polygonId, polygonGeometry, frontageLines, caller),
                          reg.nodes, NoBest.id, FALSE, NoAnswer)]
      ELSE AfterScan(reg,
                     CallRecord(reg, polygonId, polygonGeometry, frontageLines, caller),
                     MemoryScan(reg.nodes, 1, unionFrontageLines(frontageLines),
                                polygonId, NoBest),
                     layerSet)

\* the pending calls without the one at position k
WithoutCall(pending, k) ==
    [i \in 1..(Len(pending) - 1) |-> IF i < k THEN pending[i] ELSE pending[i + 1]]

\* generateOrFindConnectionNode from the pillar query's answer to its end
\* (lines 426-487 and 179-205), for the pending call at position k
FinishCall(reg, k, answer) ==
    AfterFind(reg, reg.pending[k],
              findNearbyAfterQuery(reg.nodes, reg.pending[k].frontageLines,
                                   reg.pending[k].polygonId, reg.pending[k].best, answer),
              WithoutCall(reg.pending, k), TRUE, answer)

Registry == [nodes |-> electricalNodes, clock |-> nodeClock,
             pending |-> pendingCalls, last |-> lastAssign]

SetRegistry(reg) ==
    /\ electricalNodes' = reg.nodes
    /\ nodeClock' = reg.clock
    /\ pendingCalls' = reg.pending
    /\ lastAssign' = reg.last

\* ---------------------------------------------------------------- actions
\* enableSubdivisionMode(polygonGeometry, polygonGraphic)
enableSubdivisionMode(polygonGeometry, polygonGraphic) ==
    /\ subdivisionMode' = TRUE
    /\ currentPolygonGeometry' = polygonGeometry
    /\ currentPolygonGraphic' = polygonGraphic
    /\ drawingPoints' = <<>>
    /\ clicksSinceClear' = Null
    /\ sessionLines' = <<>>

\* disableSubdivisionMode()
disableSubdivisionMode ==
    /\ subdivisionMode' = FALSE
    /\ currentPolygonGeometry' = NoGeometry
    /\ currentPolygonGraphic' = Null
    /\ drawingPoints' = <<>>
    /\ clicksSinceClear' = Null
    /\ sessionLines' = <<>>

\* setupSubdivisionListeners: click on the subdivision mode button
SubdivisionModeBtn ==
    /\ IF subdivisionMode
         THEN disableSubdivisionMode
         ELSE IF currentPolygon = Null
                THEN UNCHANGED <<subdivisionMode, currentPolygonGeometry,
                                 currentPolygonGraphic, drawingPoints,
                                 clicksSinceClear, sessionLines>>
                ELSE enableSubdivisionMode(currentPolygon.geometry, currentPolygon)
    /\ UNCHANGED <<subdivisionLayer, currentPolygon, currentFrontageLines,
                   subPolygonData, registryVars, pillarsLayer, completions, clicks,
                   lastClick, lastCompletion,
                   selectionVars, matchVars>>

\* showSubdivisionControls: click on "Exit Mode" (shown while the mode is on)
ExitSubdivisionBtn ==
    /\ subdivisionMode
    /\ disableSubdivisionMode
    /\ UNCHANGED <<subdivisionLayer, currentPolygon, currentFrontageLines,
                   subPolygonData, registryVars, pillarsLayer, completions, clicks,
                   lastClick, lastCompletion,
                   selectionVars, matchVars>>

\* a handler that ends the line at the second point whatever its tag
FinalizeAtTwoPoints(points) ==
    Len(points) >= 2

\* a handler that ends the line at any boundary point, the first included
FinalizeAtBoundary(points) ==
    Last(points).type = "boundary"

\* a handler that also ends the line at its third point whatever its tag
FinalizeAtThreePoints(points) ==
    Len(points) >= 3 \/ (Len(points) >= 2 /\ Last(points).type = "boundary")

\* handleSubdivisionClick lines 171-175: the accumulated points make a line
FinalizeCondition(points) ==
    Len(points) >= 2 /\ Last(points).type = "boundary"

\* handleSubdivisionClick(mapPoint): a map click consumed by subdivision mode,
\* with the drawSubdivisionLine call that ends it
HandleSubdivisionClick(mapPoint) ==
    /\ subdivisionMode /\ currentPolygonGeometry # NoGeometry
    /\ clicks < MaxClicks
    /\ clicks' = clicks + 1
    /\ LET pointData == ClassifyClick(mapPoint, currentPolygonGeometry,
                                      Len(drawingPoints))
           pts == Append(drawingPoints, pointData)
           finalize == FinalizeCondition(pts)
       IN  /\ Len(pts) <= MaxPts
           /\ finalize \/ Len(pts) < MaxPts
           /\ finalize => Len(getSubdivisionLines) < MaxLines
           /\ IF finalize
                THEN /\ subdivisionLayer' = Append(subdivisionLayer, LineGraphic(pts))
                     /\ sessionLines' = Append(sessionLines, LineGraphic(pts))
                     /\ drawingPoints' = <<>>
                ELSE /\ drawingPoints' = pts
                     /\ UNCHANGED <<subdivisionLayer, sessionLines>>
           /\ lastClick' = [mapPoint |-> mapPoint, nBefore |-> Len(drawingPoints),
                            pointData |-> pointData, finalized |-> finalize]
    /\ clicksSinceClear' =
          IF clicksSinceClear = Null THEN Null
          ELSE [clicks |-> Append(clicksSinceClear.clicks, mapPoint)]
    /\ UNCHANGED <<subdivisionMode, currentPolygonGeometry, currentPolygonGraphic,
                   currentPolygon, currentFrontageLines, subPolygonData,
                   registryVars, pillarsLayer, completions, lastCompletion,
                   selectionVars, matchVars>>

\* a clear that empties the layer and keeps the points accumulated
ClearLayerOnly ==
    /\ subdivisionMode
    /\ subdivisionLayer' = <<>>
    /\ clicksSinceClear' = [clicks |-> <<>>]
    /\ sessionLines' = <<>>
    /\ UNCHANGED <<subdivisionMode, currentPolygonGeometry, currentPolygonGraphic,
                   drawingPoints, currentPolygon, currentFrontageLines, subPolygonData,
                   registryVars, pillarsLayer, completions, clicks, lastClick,
                   lastCompletion, selectionVars, matchVars>>

\* clearSubdivisions(): click on "Clear Lines" (shown while the mode is on)
ClearSubdivisions ==
    /\ subdivisionMode
    /\ subdivisionLayer' = <<>>
    /\ drawingPoints' = <<>>
    /\ clicksSinceClear' = [clicks |-> <<>>]
    /\ sessionLines' = <<>>
    /\ UNCHANGED <<subdivisionMode, currentPolygonGeometry, currentPolygonGraphic,
                   currentPolygon, currentFrontageLines, subPolygonData,
                   registryVars, pillarsLayer, completions, clicks, lastClick, lastCompletion,
                   selectionVars, matchVars>>

\* generateElectricalNodesForSubPolygons lines 576-607: one call per result
\* with frontage, not awaited
RECURSIVE StartCallsForSubPolygons(_, _, _, _)
StartCallsForSubPolygons(reg, results, k, layerSet) ==
    IF k > Len(results) THEN reg
    ELSE IF Len(results[k].frontageLines) > 0
      THEN StartCallsForSubPolygons(
               StartCall(reg, SubPolygonId(results[k].originalPolygonId, results[k].index),
                         results[k].geometry, results[k].frontageLines, "complete", layerSet),
               results, k + 1, layerSet)
      ELSE StartCallsForSubPolygons(reg, results, k + 1, layerSet)

\* the places where completeSubdivision's try block can be left by a throw
ThrowPoints == {"none", "cut", "frontage", "render", "nodes", "visualization"}

\* completeSubdivision lines 379-391: what the run does once the results are
\* built, up to the place where it throws
CompletionEffects(throwAt, results, graphics, allFrontageLines) ==
    IF throwAt = "frontage"
      THEN UNCHANGED <<subdivisionVars, currentPolygon, currentFrontageLines,
                       subPolygonData, registryVars>>
    ELSE IF throwAt = "render"
      THEN /\ subPolygonData' = results
           /\ \E n \in 0..(Len(graphics) - 1) :
                 subdivisionLayer' = subdivisionLayer \o SubSeq(graphics, 1, n)
           /\ UNCHANGED <<subdivisionMode, currentPolygonGeometry, currentPolygonGraphic,
                          drawingPoints, clicksSinceClear, sessionLines, currentPolygon, currentFrontageLines,
                          registryVars>>
    ELSE IF throwAt = "nodes"
      THEN /\ subPolygonData' = results
           /\ subdivisionLayer' = subdivisionLayer \o graphics
           /\ UNCHANGED <<subdivisionMode, currentPolygonGeometry, currentPolygonGraphic,
                          drawingPoints, clicksSinceClear, sessionLines, currentPolygon, currentFrontageLines,
                          registryVars>>
    ELSE /\ subPolygonData' = results
         /\ subdivisionLayer' = subdivisionLayer \o graphics
         /\ SetRegistry(StartCallsForSubPolygons(Registry, results, 1, pillarsLayer))
         /\ IF throwAt = "visualization"
              THEN /\ Len(allFrontageLines) > 0
                   /\ currentFrontageLines' \in {currentFrontageLines, allFrontageLines}
              ELSE currentFrontageLines' =
                      IF Len(allFrontageLines) > 0 THEN allFrontageLines
                      ELSE currentFrontageLines
         /\ IF throwAt = "none"
              THEN disableSubdivisionMode
              ELSE UNCHANGED <<subdivisionMode, currentPolygonGeometry,
                               currentPolygonGraphic, drawingPoints,
                                 clicksSinceClear, sessionLines>>
         /\ UNCHANGED currentPolygon

\* the history record of a run
CompletionRecord(throwAt, trace, subPolygons, results) ==
    [outcome |-> IF throwAt = "none" THEN "ok" ELSE "threw",
     at |-> throwAt,
     lines |-> getSubdivisionLines,
     parentGeometry |-> currentPolygonGeometry,
     parentFrontageLines |-> currentFrontageLines,
     trace |-> trace, subPolygons |-> subPolygons, results |-> results]

\* completeSubdivision lines 349-391, with the results built
CompleteWithResults(throwAt, cut, results) ==
    /\ lastCompletion' = CompletionRecord(throwAt, cut.trace, cut.polygons, results)
    /\ CompletionEffects(throwAt, results,
                         [i \in 1..Len(results) |-> SubPolygonGraphic(results[i], i - 1)],
                         FlattenSeq([i \in 1..Len(results) |-> results[i].frontageLines]))

\* a guard that looks at the cached parent only
CannotCompleteWithoutParent ==
    currentPolygonGeometry = NoGeometry \/ currentPolygonGraphic = Null

\* completeSubdivision lines 302-311: the two early returns
CannotComplete ==
    \/ currentPolygonGeometry = NoGeometry \/ currentPolygonGraphic = Null
    \/ Len(getSubdivisionLines) = 0

\* the history record of a run that returned at lines 302-311
RefusedRecord ==
    [outcome |-> "refused", at |-> "guard", lines |-> <<>>,
     parentGeometry |-> NoGeometry, parentFrontageLines |-> <<>>,
     trace |-> <<>>, subPolygons |-> <<>>, results |-> <<>>]

\* completeSubdivision(modules): click on "Complete Subdivision"
CompleteSubdivision(throwAt) ==
    /\ subdivisionMode
    /\ IF CannotComplete
         THEN /\ throwAt = "none"
              /\ lastCompletion' = RefusedRecord
              /\ UNCHANGED <<subdivisionVars, currentPolygon, currentFrontageLines,
                             subPolygonData, registryVars, completions>>
         ELSE /\ completions < MaxCompletions
              /\ completions' = completions + 1
              /\ IF throwAt = "cut"
                   THEN /\ lastCompletion' = CompletionRecord(throwAt, <<>>, <<>>, <<>>)
                        /\ UNCHANGED <<subdivisionVars, currentPolygon,
                                       currentFrontageLines, subPolygonData, registryVars>>
                   ELSE \E cut \in CutLoop(<<currentPolygonGeometry>>,
                                            getSubdivisionLines, <<>>) :
                           CompleteWithResults(throwAt, cut,
                                               SubPolygonResults(cut.polygons,
                                                                 currentFrontageLines,
                                                                 currentPolygonGraphic))
    /\ UNCHANGED <<pillarsLayer, clicks, lastClick,
                   selectionVars, matchVars>>

\* pillar features of the inventory: one 10 m from the first parcel's
\* frontage and out of reach of the second's, one between the two parcels
Pil1 == [pick_id |-> <<"PIL", 1>>, geometry |-> <<6, -10>>]
Pil2 == [pick_id |-> <<"PIL", 2>>, geometry |-> <<30, -4>>]

\* answers of pillarsLayer.queryFeatures: rejected, or a list of features
PillarAnswers ==
    {[ok |-> FALSE, features |-> <<>>],
     [ok |-> TRUE, features |-> <<>>],
     [ok |-> TRUE, features |-> <<Pil1>>],
     [ok |-> TRUE, features |-> <<Pil2>>],
     [ok |-> TRUE, features |-> <<Pil2, Pil1>>]}

\* the query asks for the features that intersect the frontage buffer
AnswerFits(answer, frontageLines) ==
    \A i \in 1..Len(answer.features) :
        InFrontageBuffer(unionFrontageLines(frontageLines), answer.features[i].geometry)

\* a callback that stores the frontage lines only while its parcel is still
\* the one selected
ThenCallbackIfSelected(call) ==
    IF /\ call.caller = "select"
       /\ currentPolygon # Null
       /\ PolygonIdOf(currentPolygon) = call.polygonId
      THEN currentFrontageLines' = call.frontageLines
      ELSE UNCHANGED currentFrontageLines

\* what the caller chained on the call's promise: the selection handlers run
\* updateNodeVisualizationForProperty(frontageLines, ...), which stores the
\* frontage lines (line 754); the other callers chain nothing
ThenCallback(call) ==
    IF call.caller = "select"
      THEN currentFrontageLines' = call.frontageLines
      ELSE UNCHANGED currentFrontageLines

\* the pillar query of a pending call is answered (or rejected)
PillarQueryDone(k, answer) ==
    /\ k \in 1..Len(pendingCalls)
    /\ AnswerFits(answer, pendingCalls[k].frontageLines)
    /\ SetRegistry(FinishCall(Registry, k, answer))
    /\ ThenCallback(pendingCalls[k])
    /\ UNCHANGED <<subdivisionVars, currentPolygon, subPolygonData, pillarsLayer,
                   completions, clicks, lastClick, lastCompletion,
                   selectionVars, matchVars>>

\* what the geometry engine makes of the setback computation (lines 597-607):
\* the zone; null or an empty geometry from intersect; and with two lines or
\* more, null from union, which buffer and intersect either pass on as null
\* or throw on
EngineOutcomes(frontageLines) ==
    {"zone", "intersectNull", "intersectEmpty"}
       \cup (IF Len(frontageLines) >= 2 THEN {"unionNull", "unionThrows"} ELSE {})

\* geometryEngine.intersect(buffer(union of the frontage lines, 10 m), polygon)
SetbackZoneOf(frontageLines, polygonGeometry) ==
    [frontage |-> [i \in 1..Len(frontageLines) |-> frontageLines[i].geometry],
     inside |-> polygonGeometry]
EmptyGeometry == [frontage |-> <<>>, inside |-> <<>>]

\* generateSetbackZone: the layer after the call, and whether the call threw;
\* the layer is emptied first, and a graphic is added for every answer of
\* intersect that is not null
generateSetbackZone(frontageLines, polygonGraphic, engine) ==
    IF engine = "zone"
      THEN [layer |-> <<[geometry |-> SetbackZoneOf(frontageLines,
                                                     polygonGraphic.geometry)]>>,
            threw |-> FALSE]
    ELSE IF engine = "intersectEmpty"
      THEN [layer |-> <<[geometry |-> EmptyGeometry]>>, threw |-> FALSE]
    ELSE [layer |-> <<>>, threw |-> engine = "unionThrows"]

\* the setback layer once a selection has been processed with the engine
\* answering
InitSetback(polygonGraphic, frontageLines) ==
    IF Len(frontageLines) > 0
      THEN generateSetbackZone(frontageLines, polygonGraphic, "zone").layer
      ELSE <<>>

\* the session right after a parcel selection has been processed: nothing
\* selected, or the parcel selected, its frontage cached and its node call made
InitRegistry(frontageLines, layerSet) ==
    IF Len(frontageLines) > 0
      THEN StartCall([nodes |-> <<>>, clock |-> 0, pending |-> <<>>, last |-> Null],
                     PolygonIdOf(ParcelGraphic), ParcelRing, frontageLines, "select",
                     layerSet)
      ELSE [nodes |-> <<>>, clock |-> 0, pending |-> <<>>, last |-> Null]

Init ==
    /\ subdivisionMode = FALSE
    /\ currentPolygonGeometry = NoGeometry
    /\ currentPolygonGraphic = Null
    /\ drawingPoints = <<>>
    /\ clicksSinceClear = Null
    /\ sessionLines = <<>>
    /\ subdivisionLayer = <<>>
    /\ subPolygonData = <<>>
    /\ pillarsLayer = FALSE
    /\ \/ /\ currentPolygon = Null
          /\ currentFrontageLines = <<>>
       \/ /\ currentPolygon = ParcelGraphic
          /\ currentFrontageLines \in FrontageChoices
    /\ LET reg == InitRegistry(currentFrontageLines, pillarsLayer)
       IN  /\ electricalNodes = reg.nodes
           /\ nodeClock = reg.clock
           /\ pendingCalls = reg.pending
           /\ lastAssign = reg.last
    /\ completions = 0
    /\ clicks = 0
    /\ lastClick = Null
    /\ lastCompletion = Null
    /\ pendingQueries = <<>>
    /\ selections = 0
    /\ lastSelection = Null
    /\ lastQuery = Null
    /\ setbackLayer = InitSetback(currentPolygon, currentFrontageLines)
    /\ matchEdge = Null /\ matchLine = Null /\ matchResult = Null
    /\ lineFeature = Null /\ lineResult = Null

Next ==
    \/ SubdivisionModeBtn
    \/ ExitSubdivisionBtn
    \/ \E mapPoint \in Clicks : HandleSubdivisionClick(mapPoint)
    \/ ClearSubdivisions
    \/ \E throwAt \in ThrowPoints : CompleteSubdivision(throwAt)

Spec == Init /\ [][Next]_vars

\* ------------------------------------------- the edge matcher on its own
\* end points of the edges passed to the matcher, and the reference lines:
\* a straight line along the x axis, a diagonal, and a line bent away from
\* the segment that joins its ends
MatchPoints ==
    {<<0, 0>>, <<10, 0>>, <<5, 2>>, <<5, 3>>, <<12, 0>>, <<13, 0>>, <<2, 0>>, <<3, 0>>}
MatchLines ==
    {<< <<0, 0>>, <<10, 0>> >>,
     << <<0, 0>>, <<4, 4>> >>,
     << <<0, 0>>, <<5, 10>>, <<10, 0>> >>}

\* the state of the session before any parcel is selected
NothingSelected ==
    /\ subdivisionMode = FALSE
    /\ currentPolygonGeometry = NoGeometry
    /\ currentPolygonGraphic = Null
    /\ drawingPoints = <<>>
    /\ clicksSinceClear = Null
    /\ sessionLines = <<>>
    /\ subdivisionLayer = <<>>
    /\ subPolygonData = <<>>
    /\ currentPolygon = Null
    /\ currentFrontageLines = <<>>
    /\ electricalNodes = <<>>
    /\ nodeClock = 0
    /\ pendingCalls = <<>>
    /\ lastAssign = Null
    /\ completions = 0
    /\ clicks = 0
    /\ lastClick = Null
    /\ lastCompletion = Null
    /\ pendingQueries = <<>>
    /\ selections = 0
    /\ lastSelection = Null
    /\ lastQuery = Null
    /\ setbackLayer = <<>>

InitMatch ==
    /\ NothingSelected
    /\ pillarsLayer = FALSE
    /\ matchEdge \in [start : MatchPoints, end : MatchPoints]
    /\ matchLine \in MatchLines
    /\ matchResult = Null
    /\ lineFeature = Null /\ lineResult = Null

\* one call edgeMatchesFrontageLine(edge, frontageLineGeometry), and the call
\* with the edge's ends exchanged
CallEdgeMatches ==
    /\ matchResult = Null
    /\ matchResult' =
          [value |-> edgeMatchesFrontageLine(matchEdge, matchLine),
           swapped |-> edgeMatchesFrontageLine([start |-> matchEdge.end,
                                                end |-> matchEdge.start], matchLine)]
    /\ UNCHANGED <<subdivisionVars, subdivisionLayer, currentPolygon, currentFrontageLines,
                   subPolygonData, registryVars, pillarsLayer, completions, clicks,
                   lastClick, lastCompletion, selectionVars, matchEdge, matchLine,
                   lineFeature, lineResult>>

NextMatch == CallEdgeMatches

SpecMatch == InitMatch /\ [][NextMatch]_vars

\* --------------------------------------- parcel selection and the registry
\* the history record of a map click outside subdivision mode: the handler
\* that took it, the node list before it and the node list at the end of the
\* handler's synchronous part
SelectionRecord(handler, nodesBefore, nodesAfter) ==
    [handler |-> handler, nodesBefore |-> nodesBefore, nodesAfter |-> nodesAfter]

\* the node list when generateOrFindConnectionNode reaches its first await
\* that yields (line 177): findNearbyConnectionNode has scanned the nodes in
\* memory and, when no pillar layer is set and no node serves the polygon,
\* has run to its end
NodesAfterSynchronousPart(nodes, polygonId, frontageLines, layerSet) ==
    IF Len(frontageLines) = 0 \/ layerSet THEN nodes
    ELSE IF MemoryScan(nodes, 1, unionFrontageLines(frontageLines), polygonId,
                       NoBest).served # NoBest.id
      THEN nodes
    ELSE returnOfFindNearby(
             [nodes |-> nodes, served |-> NoBest.id,
              best |-> MemoryScan(nodes, 1, unionFrontageLines(frontageLines),
                                  polygonId, NoBest).best],
             polygonId).nodes

\* the frontage lines the cadastral line query and its filters give a parcel
FrontageOf(polygonGraphic) ==
    IF polygonGraphic.geometry = ParcelRing THEN <<FrontA>> ELSE <<FrontOfB>>

\* ENDPOINT_DISTANCE_THRESHOLD, metres: 1.5 as the fraction 3/2
ENDPOINT_DISTANCE_THRESHOLD == <<3, 2>>

\* the value of an attribute, undefined when the feature does not carry it
AttributeOf(attributes, name) ==
    IF name \in DOMAIN attributes THEN attributes[name] ELSE Undefined

\* geometryEngine.distance(point, polygon, "meters") <= t for t = num/den
\* metres and coordinates of unitsPerMetre units to the metre: the distance
\* is zero for a point of the polygon, else the distance to its ring
polygonDistanceWithin(point, ring, t, unitsPerMetre) ==
    \/ contains(ring, point)
    \/ FracLeq(PathDistSq(ring, point),
               <<t[1] * t[1] * unitsPerMetre * unitsPerMetre, t[2] * t[2]>>)

\* an endpoint test that looks at the first point of the path only
startPointClose(feature, polygonGeometry, unitsPerMetre) ==
    /\ Len(feature.geometry) >= 2
    /\ polygonDistanceWithin(feature.geometry[1], polygonGeometry,
                             ENDPOINT_DISTANCE_THRESHOLD, unitsPerMetre)

\* the filter callback of lines 400-463: the path has two points or more and
\* its first and last point are both within the threshold of the polygon
bothEndpointsClose(feature, polygonGeometry, unitsPerMetre) ==
    /\ Len(feature.geometry) >= 2
    /\ polygonDistanceWithin(feature.geometry[1], polygonGeometry,
                             ENDPOINT_DISTANCE_THRESHOLD, unitsPerMetre)
    /\ polygonDistanceWithin(Last(feature.geometry), polygonGeometry,
                             ENDPOINT_DISTANCE_THRESHOLD, unitsPerMetre)

\* lines 409-417: the label of a queried line
usageLabelOf(attributes) ==
    LET usageCode == AttributeOf(attributes, "usage_code")
        renderNormal == AttributeOf(attributes, "render_normal")
    IN  IF \/ usageCode = JSNumber(1)
           \/ usageCode = JSString("1-Y") \/ usageCode = JSString("1-N")
           \/ renderNormal = JSString("1-Y") \/ renderNormal = JSString("1-N")
          THEN "FRONTAGE"
        ELSE IF usageCode = JSNumber(2) THEN "INTERIOR"
        ELSE "OTHER"

\* lines 489-493: the filter that picks the frontage lines of the valid lines
isFrontageLine(line) ==
    LET usageCode == AttributeOf(line.attributes, "usage_code")
        renderNormal == AttributeOf(line.attributes, "render_normal")
    IN  \/ usageCode = JSNumber(1)
        \/ usageCode = JSString("1-Y") \/ usageCode = JSString("1-N")
        \/ renderNormal = JSString("1-Y") \/ renderNormal = JSString("1-N")

\* highlightSubPolygonFrontage line 183: the check made on a line that is
\* drawn as frontage of a sub-polygon
isFrontage(line) ==
    LET usageCode == AttributeOf(line.attributes, "usage_code")
        renderNormal == AttributeOf(line.attributes, "render_normal")
    IN  \/ usageCode = JSNumber(1)
        \/ usageCode = JSString("1-Y") \/ usageCode = JSString("1-N")
        \/ renderNormal = JSString("1-Y") \/ renderNormal = JSString("1-N")

\* String(n) of a natural number
Digits == <<"0", "1", "2", "3", "4", "5", "6", "7", "8", "9">>
RECURSIVE NatToString(_)
NatToString(n) ==
    IF n < 10 THEN Digits[n + 1]
    ELSE NatToString(n \div 10) \o Digits[(n % 10) + 1]

\* the property key JavaScript makes of a usage_code
KeyOf(code) == IF code[1] = "number" THEN NatToString(code[2]) ELSE code[2]

\* updatePolygonMetadata lines 298-302 and 329-337: the heading a key is
\* shown under
usageCodeLabels(key) ==
    IF key = "1" THEN "Frontage"
    ELSE IF key = "2" THEN "Interior"
    ELSE IF key = "11" THEN "Other"
    ELSE "Code " \o key

\* updatePolygonMetadata lines 305-311: the heading a line is counted under;
\* a line without usage_code is not counted
metadataLabelOf(line) ==
    IF AttributeOf(line.attributes, "usage_code") = Undefined THEN "not counted"
    ELSE usageCodeLabels(KeyOf(line.attributes.usage_code))

\* lines 400-463 and 489-493 over the features of an answer
validLinesOf(features, polygonGraphic) ==
    SelectSeq(features, LAMBDA f : bothEndpointsClose(f, polygonGraphic.geometry, 1))
frontageLinesOf(validLines) ==
    SelectSeq(validLines, isFrontageLine)

\* further boundary lines of the data set: the side the two parcels' blocks
\* share with their neighbours, and a line of the road's far side
SideA == [geometry |-> << <<12, 0>>, <<12, 12>> >>,
          attributes |-> [usage_code |-> JSNumber(2), line_no |-> "E"]]
SideB == [geometry |-> << <<40, 0>>, <<40, 12>> >>,
          attributes |-> [usage_code |-> JSNumber(2), line_no |-> "F"]]
RoadLine == [geometry |-> << <<0, -2>>, <<52, -2>> >>,
             attributes |-> [usage_code |-> JSNumber(1), line_no |-> "R"]]

\* the lines of the data set within the 2 m buffer of a parcel
LinesNear(polygonGraphic) ==
    IF polygonGraphic.geometry = ParcelRing THEN <<FrontA, SideA, RoadLine>>
    ELSE <<SideB, RoadLine, FrontOfB>>

\* the history record of an answered query
QueryRecord(polygonGraphic, answer, cachedBefore) ==
    [polygonGraphic |-> polygonGraphic, answer |-> answer,
     cachedBefore |-> cachedBefore]

\* highlightCadastralFrontage from the answer of the cadastral line query on
\* (lines 381-586), for the pending query at position q: a rejected query is
\* only logged, an answer without valid lines as well; what generateSetbackZone
\* throws is caught at line 583, and the rest of the callback is not run
CadastralLinesAnswered(q, answer, engine) ==
    /\ q \in 1..Len(pendingQueries)
    /\ pendingQueries' = WithoutCall(pendingQueries, q)
    /\ lastQuery' = QueryRecord(pendingQueries[q], answer, currentFrontageLines)
    /\ IF answer.ok /\ Len(validLinesOf(answer.features, pendingQueries[q])) > 0
         THEN IF Len(frontageLinesOf(validLinesOf(answer.features,
                                                  pendingQueries[q]))) > 0
                THEN /\ engine \in EngineOutcomes(
                           frontageLinesOf(validLinesOf(answer.features,
                                                        pendingQueries[q])))
                     /\ setbackLayer' =
                           generateSetbackZone(
                               frontageLinesOf(validLinesOf(answer.features,
                                                            pendingQueries[q])),
                               pendingQueries[q], engine).layer
                     /\ IF engine = "unionThrows"
                          THEN UNCHANGED <<currentFrontageLines, registryVars>>
                          ELSE /\ currentFrontageLines' =
                                     frontageLinesOf(validLinesOf(answer.features,
                                                                  pendingQueries[q]))
                               /\ SetRegistry(StartCall(Registry,
                                     PolygonIdOf(pendingQueries[q]),
                                     pendingQueries[q].geometry,
                                     frontageLinesOf(validLinesOf(answer.features,
                                                                  pendingQueries[q])),
                                     "select", pillarsLayer))
                ELSE /\ engine = "zone"
                     /\ setbackLayer' = <<>>
                     /\ currentFrontageLines' = <<>>
                     /\ UNCHANGED registryVars
         ELSE /\ engine = "zone"
              /\ UNCHANGED <<currentFrontageLines, registryVars, setbackLayer>>
    /\ UNCHANGED <<subdivisionVars, subdivisionLayer, currentPolygon, subPolygonData,
                   pillarsLayer, completions, clicks, lastClick, lastCompletion,
                   selections, lastSelection, matchVars>>

\* the answer of a parcel's query in the data set, or its rejection, with the
\* engine answering
CadastralLinesQueryDone(q, ok) ==
    /\ q \in 1..Len(pendingQueries)
    /\ CadastralLinesAnswered(q, [ok |-> ok,
                                  features |-> IF ok THEN LinesNear(pendingQueries[q])
                                               ELSE <<>>], "zone")

\* highlightCadastralFrontage up to the cadastral line query (lines 321-380):
\* a map click on a parcel outside subdivision mode
HighlightCadastralFrontage(polygonGraphic) ==
    /\ ~subdivisionMode
    /\ selections < MaxSelections
    /\ selections' = selections + 1
    /\ electricalNodes' = removeAllPotentialNodes(electricalNodes)
    /\ currentPolygon' = polygonGraphic
    /\ pendingQueries' = Append(pendingQueries, polygonGraphic)
    /\ lastSelection' = SelectionRecord("parcel", electricalNodes,
                                        removeAllPotentialNodes(electricalNodes))
    /\ pendingCalls' = Disturb(pendingCalls)
    /\ lastAssign' = Null
    /\ UNCHANGED <<subdivisionVars, subdivisionLayer, currentFrontageLines, subPolygonData,
                   nodeClock, pillarsLayer, completions, clicks, lastClick,
                   lastCompletion, lastQuery, setbackLayer, matchVars>>

\* handleDefaultClick: a map click on no parcel outside subdivision mode
HandleDefaultClick ==
    /\ ~subdivisionMode
    /\ selections < MaxSelections
    /\ selections' = selections + 1
    /\ electricalNodes' = removeAllPotentialNodes(electricalNodes)
    /\ lastSelection' = SelectionRecord("default", electricalNodes,
                                        removeAllPotentialNodes(electricalNodes))
    /\ pendingCalls' = Disturb(pendingCalls)
    /\ lastAssign' = Null
    /\ setbackLayer' = <<>>
    /\ UNCHANGED <<subdivisionVars, subdivisionLayer, currentPolygon, currentFrontageLines,
                   subPolygonData, nodeClock, pillarsLayer, completions, clicks,
                   lastClick, lastCompletion, pendingQueries, lastQuery, matchVars>>

InitAssign ==
    /\ NothingSelected
    /\ pillarsLayer \in BOOLEAN
    /\ matchEdge = Null /\ matchLine = Null /\ matchResult = Null
    /\ lineFeature = Null /\ lineResult = Null

NextAssign ==
    \/ \E polygonGraphic \in {ParcelGraphic, ParcelGraphicB} :
          HighlightCadastralFrontage(polygonGraphic)
    \/ \E q \in 1..Len(pendingQueries), ok \in BOOLEAN : CadastralLinesQueryDone(q, ok)
    \/ \E k \in 1..Len(pendingCalls), answer \in PillarAnswers : PillarQueryDone(k, answer)
    \/ HandleDefaultClick

SpecAssign == InitAssign /\ [][NextAssign]_vars

\* ------------------------------------- selection around a subdivision
\* checkAndHandleSubPolygonClick lines 82-92: the temporary graphic made
\* for the sub-polygon graphic hit
SubPolygonClickGraphic(graphic, subData) ==
    [geometry |-> graphic.geometry,
     attributes |-> [__OBJECTID |-> <<"SUB", graphic.subIndex>>,
                     subPolygon |-> TRUE,
                     subIndex |-> graphic.subIndex,
                     originalPolygonId |-> subData.originalPolygonId]]

\* highlightSubPolygonFrontage lines 159-236: the frontage lines are stored
\* and the node call made when the sub-polygon has frontage
SubPolygonFrontageEffects(subPolygonGraphic, frontageLines, reg, engine) ==
    /\ currentPolygon' = subPolygonGraphic
    /\ currentFrontageLines' = frontageLines
    /\ IF Len(frontageLines) > 0
         THEN /\ engine \in EngineOutcomes(frontageLines)
              /\ setbackLayer' = generateSetbackZone(frontageLines, subPolygonGraphic,
                                                     engine).layer
              /\ IF engine = "unionThrows"
                   THEN SetRegistry(reg)
                   ELSE SetRegistry(StartCall(reg, PolygonIdOf(subPolygonGraphic),
                                              subPolygonGraphic.geometry, frontageLines,
                                              "select", pillarsLayer))
         ELSE /\ engine = "zone"
              /\ UNCHANGED setbackLayer
              /\ SetRegistry(reg)

\* the graphic at position i lies under a sub-polygon graphic added later
\* that the loop of lines 79-106 would take: the hit test lists the graphics
\* at the click from the top down, and no click on i meets i first
LiesUnderLaterGraphic(i) ==
    \E j \in (i + 1)..Len(subdivisionLayer) :
       /\ subdivisionLayer[j].kind = "subPolygon"
       /\ subdivisionLayer[j].subIndex < Len(subPolygonData)
       /\ \A k \in 1..Len(subdivisionLayer[i].geometry) :
             polygonDistanceWithin(subdivisionLayer[i].geometry[k],
                                   subdivisionLayer[j].geometry, <<0, 1>>, 1)

\* checkAndHandleSubPolygonClick and highlightSubPolygonFrontage: a map click
\* outside subdivision mode whose first hit with stored data is the
\* sub-polygon graphic at position i of the subdivision layer; what
\* generateSetbackZone throws leaves the handler before the node call
HandleSubPolygonClickWith(i, engine) ==
    /\ ~subdivisionMode
    /\ subPolygonData # <<>>
    /\ i \in 1..Len(subdivisionLayer)
    /\ subdivisionLayer[i].kind = "subPolygon"
    /\ subdivisionLayer[i].subIndex < Len(subPolygonData)
    /\ ~LiesUnderLaterGraphic(i)
    /\ selections < MaxSelections
    /\ selections' = selections + 1
    /\ SubPolygonFrontageEffects(
          SubPolygonClickGraphic(subdivisionLayer[i],
                                 subPolygonData[subdivisionLayer[i].subIndex + 1]),
          subPolygonData[subdivisionLayer[i].subIndex + 1].frontageLines,
          [nodes |-> removeAllPotentialNodes(electricalNodes), clock |-> nodeClock,
           pending |-> Disturb(pendingCalls), last |-> Null],
          engine)
    /\ lastSelection' =
          SelectionRecord("subPolygon", electricalNodes,
                          IF engine = "unionThrows"
                            THEN removeAllPotentialNodes(electricalNodes)
                            ELSE NodesAfterSynchronousPart(
                                    removeAllPotentialNodes(electricalNodes),
                                    <<"SUB", subdivisionLayer[i].subIndex>>,
                                    subPolygonData[subdivisionLayer[i].subIndex + 1]
                                       .frontageLines,
                                    pillarsLayer))
    /\ UNCHANGED <<subdivisionVars, subdivisionLayer, subPolygonData, pillarsLayer,
                   completions, clicks, lastClick, lastCompletion, pendingQueries, lastQuery,
                   matchVars>>

\* the click with the engine answering
HandleSubPolygonClick(i) == HandleSubPolygonClickWith(i, "zone")

\* the points of a line straight across the first parcel, as the click
\* handler classifies the two map clicks that draw it
PointsAcross ==
    <<ClassifyClick(<<-3, 6>>, ParcelRing, 0), ClassifyClick(<<10, 6>>, ParcelRing, 1)>>

\* the first parcel as a layer without an objectid attribute serves it
ParcelGraphicOther ==
    [geometry |-> ParcelRing,
     attributes |-> [__OBJECTID |-> <<"P", 3>>, OBJECTID |-> <<"P", 4>>]]

\* the session once the first parcel has been selected, its frontage query
\* answered, subdivision mode entered and one line drawn across the parcel
InitSub ==
    /\ subdivisionMode = TRUE
    /\ currentPolygonGeometry = ParcelRing
    /\ currentPolygonGraphic \in {ParcelGraphic, ParcelGraphicOther}
    /\ drawingPoints = <<>>
    /\ clicksSinceClear = Null
    /\ subdivisionLayer = <<LineGraphic(PointsAcross)>>
    /\ sessionLines = <<LineGraphic(PointsAcross)>>
    /\ subPolygonData = <<>>
    /\ pillarsLayer \in BOOLEAN
    /\ currentPolygon = currentPolygonGraphic
    /\ currentFrontageLines = FrontageOf(currentPolygon)
    /\ LET reg == StartCall([nodes |-> <<>>, clock |-> 0, pending |-> <<>>, last |-> Null],
                            PolygonIdOf(currentPolygon), currentPolygon.geometry,
                            currentFrontageLines, "select", pillarsLayer)
       IN  /\ electricalNodes = reg.nodes
           /\ nodeClock = reg.clock
           /\ pendingCalls = reg.pending
           /\ lastAssign = reg.last
    /\ completions = 0
    /\ clicks = Len(PointsAcross)
    /\ lastClick = [mapPoint |-> <<10, 6>>, nBefore |-> 1,
                    pointData |-> PointsAcross[2], finalized |-> TRUE]
    /\ lastCompletion = Null
    /\ pendingQueries = <<>>
    /\ selections = 1
    /\ lastSelection = Null
    /\ lastQuery = Null
    /\ setbackLayer = InitSetback(currentPolygon, currentFrontageLines)
    /\ matchEdge = Null /\ matchLine = Null /\ matchResult = Null
    /\ lineFeature = Null /\ lineResult = Null

\* the answers of the pillar inventory around a subdivision: no feature, or
\* the pillar between the parcels
AnswersSub == {NoAnswer, [ok |-> TRUE, features |-> <<Pil2>>]}

\* the subdivision is completed and its sub-polygons, the second parcel or
\* the empty map are clicked; the geometry engine throws nothing
NextSub ==
    \/ CompleteSubdivision("none")
    \/ \E k \in 1..Len(pendingCalls), answer \in AnswersSub : PillarQueryDone(k, answer)
    \/ \E i \in 1..Len(subdivisionLayer) : HandleSubPolygonClick(i)
    \/ HighlightCadastralFrontage(ParcelGraphicB)
    \/ \E q \in 1..Len(pendingQueries), ok \in BOOLEAN : CadastralLinesQueryDone(q, ok)
    \/ HandleDefaultClick

SpecSub == InitSub /\ [][NextSub]_vars

\* --------------------------------- a subdivision with a callback still out
\* the session once the second parcel has been clicked, then the first, the
\* first parcel's frontage query answered, subdivision mode entered and one
\* line drawn across the first parcel; the second parcel's frontage query is
\* still awaiting its answer
InitLate ==
    /\ subdivisionMode = TRUE
    /\ currentPolygonGeometry = ParcelRing
    /\ currentPolygonGraphic = ParcelGraphic
    /\ drawingPoints = <<>>
    /\ clicksSinceClear = Null
    /\ subdivisionLayer = <<LineGraphic(PointsAcross)>>
    /\ sessionLines = <<LineGraphic(PointsAcross)>>
    /\ subPolygonData = <<>>
    /\ pillarsLayer \in BOOLEAN
    /\ currentPolygon = ParcelGraphic
    /\ currentFrontageLines = FrontageOf(ParcelGraphic)
    /\ LET reg == StartCall([nodes |-> <<>>, clock |-> 0, pending |-> <<>>, last |-> Null],
                            PolygonIdOf(ParcelGraphic), ParcelRing,
                            FrontageOf(ParcelGraphic), "select", pillarsLayer)
       IN  /\ electricalNodes = reg.nodes
           /\ nodeClock = reg.clock
           /\ pendingCalls = reg.pending
           /\ lastAssign = reg.last
    /\ completions = 0
    /\ clicks = Len(PointsAcross)
    /\ lastClick = [mapPoint |-> <<10, 6>>, nBefore |-> 1,
                    pointData |-> PointsAcross[2], finalized |-> TRUE]
    /\ lastCompletion = Null
    /\ pendingQueries = <<ParcelGraphicB>>
    /\ selections = 2
    /\ lastSelection = SelectionRecord("parcel", <<>>, <<>>)
    /\ lastQuery = Null
    /\ setbackLayer = InitSetback(currentPolygon, currentFrontageLines)
    /\ matchEdge = Null /\ matchLine = Null /\ matchResult = Null
    /\ lineFeature = Null /\ lineResult = Null

\* the callbacks still out run, and the subdivision is completed
NextLate ==
    \/ \E q \in 1..Len(pendingQueries), ok \in BOOLEAN : CadastralLinesQueryDone(q, ok)
    \/ \E k \in 1..Len(pendingCalls), answer \in PillarAnswers : PillarQueryDone(k, answer)
    \/ \E throwAt \in ThrowPoints : CompleteSubdivision(throwAt)

SpecLate == InitLate /\ [][NextLate]_vars

\* --------------------------------------- selections over varying data sets
\* answers of the cadastral line query for a parcel: rejected, no line at
\* all, only a line whose ends are too far, lines without frontage among
\* them, and the lines of the data set
QueryAnswers(polygonGraphic) ==
    {[ok |-> FALSE, features |-> <<>>],
     [ok |-> TRUE, features |-> <<>>],
     [ok |-> TRUE, features |-> <<RoadLine>>],
     [ok |-> TRUE, features |-> SelectSeq(LinesNear(polygonGraphic),
                                          LAMBDA f : ~isFrontageLine(f))],
     [ok |-> TRUE, features |-> LinesNear(polygonGraphic)]}

InitQuery ==
    /\ NothingSelected
    /\ pillarsLayer \in BOOLEAN
    /\ matchEdge = Null /\ matchLine = Null /\ matchResult = Null
    /\ lineFeature = Null /\ lineResult = Null

NextQuery ==
    \/ \E polygonGraphic \in {ParcelGraphic, ParcelGraphicB} :
          HighlightCadastralFrontage(polygonGraphic)
    \/ \E q \in 1..Len(pendingQueries) :
          \E answer \in QueryAnswers(pendingQueries[q]) :
             CadastralLinesAnswered(q, answer, "zone")
    \/ \E k \in 1..Len(pendingCalls), answer \in PillarAnswers : PillarQueryDone(k, answer)

SpecQuery == InitQuery /\ [][NextQuery]_vars

\* answers with frontage among the lines: the lines of the data set, and for
\* the first parcel the lines of a corner lot, frontage on two sides
FrontageAnswers(polygonGraphic) ==
    {[ok |-> TRUE, features |-> LinesNear(polygonGraphic)]}
       \cup (IF polygonGraphic.geometry = ParcelRing
               THEN {[ok |-> TRUE, features |-> <<FrontA, FrontC, SideA>>]}
               ELSE {})

\* parcels are selected and their lines arrive, with the geometry engine
\* answering the setback computation in each way it can
NextSetback ==
    \/ \E polygonGraphic \in {ParcelGraphic, ParcelGraphicB} :
          HighlightCadastralFrontage(polygonGraphic)
    \/ \E q \in 1..Len(pendingQueries) :
          \E answer \in FrontageAnswers(pendingQueries[q]),
             engine \in EngineOutcomes(<<FrontA, FrontC>>) :
                CadastralLinesAnswered(q, answer, engine)
    \/ \E k \in 1..Len(pendingCalls), answer \in AnswersSub : PillarQueryDone(k, answer)

SpecSetback == InitQuery /\ [][NextSetback]_vars

\* ------------------------------------------- a subdivision after another
\* the session once the first parcel has been selected and subdivided by the
\* line across it, with the engine cutting: the mode is off again, the line
\* and the sub-polygon graphics are on the layer, the results are stored and
\* the nodes of the sub-polygons with frontage are made
InitAgain ==
    /\ subdivisionMode = FALSE
    /\ currentPolygonGeometry = NoGeometry
    /\ currentPolygonGraphic = Null
    /\ drawingPoints = <<>>
    /\ clicksSinceClear = Null
    /\ sessionLines = <<>>
    /\ pillarsLayer = FALSE
    /\ currentPolygon = ParcelGraphic
    /\ \E cut \in CutLoop(<<ParcelRing>>, <<LineGraphic(PointsAcross)>>, <<>>) :
          LET results == SubPolygonResults(cut.polygons, FrontageOf(ParcelGraphic),
                                           ParcelGraphic)
              allFrontageLines ==
                 FlattenSeq([i \in 1..Len(results) |-> results[i].frontageLines])
              reg == StartCallsForSubPolygons(
                        InitRegistry(FrontageOf(ParcelGraphic), FALSE), results, 1, FALSE)
          IN  /\ Len(cut.polygons) = 2
              /\ subdivisionLayer =
                    <<LineGraphic(PointsAcross)>>
                       \o [i \in 1..Len(results) |-> SubPolygonGraphic(results[i], i - 1)]
              /\ subPolygonData = results
              /\ currentFrontageLines =
                    IF Len(allFrontageLines) > 0 THEN allFrontageLines
                    ELSE FrontageOf(ParcelGraphic)
              /\ electricalNodes = reg.nodes
              /\ nodeClock = reg.clock
              /\ pendingCalls = reg.pending
              /\ lastAssign = reg.last
    /\ completions = 0
    /\ clicks = Len(PointsAcross)
    /\ lastClick = [mapPoint |-> <<10, 6>>, nBefore |-> 1,
                    pointData |-> PointsAcross[2], finalized |-> TRUE]
    /\ lastCompletion = Null
    /\ pendingQueries = <<>>
    /\ selections = 1
    /\ lastSelection = Null
    /\ lastQuery = Null
    /\ setbackLayer = InitSetback(ParcelGraphic, FrontageOf(ParcelGraphic))
    /\ matchEdge = Null /\ matchLine = Null /\ matchResult = Null
    /\ lineFeature = Null /\ lineResult = Null

\* the second parcel is selected, the mode is entered and left, lines are
\* drawn, the subdivision is completed and sub-polygon graphics are clicked
NextAgain ==
    \/ HighlightCadastralFrontage(ParcelGraphicB)
    \/ \E q \in 1..Len(pendingQueries), ok \in BOOLEAN : CadastralLinesQueryDone(q, ok)
    \/ SubdivisionModeBtn
    \/ \E mapPoint \in Clicks : HandleSubdivisionClick(mapPoint)
    \/ CompleteSubdivision("none")
    \/ \E i \in 1..Len(subdivisionLayer) : HandleSubPolygonClick(i)

SpecAgain == InitAgain /\ [][NextAgain]_vars

\* ------------------------------------------------ the line classifiers alone
\* the first parcel with coordinates in half metres
HalfMetreRing ==
    [i \in 1..Len(ParcelRing) |-> <<2 * ParcelRing[i][1], 2 * ParcelRing[i][2]>>]

\* ends of queried lines, in half metres: a corner of the parcel, its centre,
\* 1 m, exactly 1.5 m and 2 m left of it, and far away
LineEnds == {<<0, 0>>, <<12, 12>>, <<-2, 0>>, <<-3, 10>>, <<-4, 0>>, <<60, 0>>}

\* paths[0] of a queried line: two points, one point only, or three points
\* with the middle one far from the parcel
LinePaths ==
    {<<a, b>> : a \in LineEnds, b \in LineEnds}
       \cup {<< <<0, 0>> >>, << <<0, 0>>, <<60, 0>>, <<24, 0>> >>}

\* the values the line layers give usage_code and render_normal
UsageCodes == {JSNumber(1), JSNumber(2), JSNumber(3), JSNumber(11),
               JSString("1-Y"), JSString("1-N"), JSString("2-Y")}
RenderNormals == {JSString("1-Y"), JSString("1-N"), JSString("2-Y")}

\* attributes of a queried line: either field may be missing
LineAttributes ==
    {[line_no |-> "L"]}
       \cup {[line_no |-> "L", usage_code |-> u] : u \in UsageCodes}
       \cup {[line_no |-> "L", render_normal |-> r] : r \in RenderNormals}
       \cup {[line_no |-> "L", usage_code |-> u, render_normal |-> r] :
                u \in UsageCodes, r \in RenderNormals}

InitLine ==
    /\ NothingSelected
    /\ pillarsLayer = FALSE
    /\ matchEdge = Null /\ matchLine = Null /\ matchResult = Null
    /\ lineFeature \in [geometry : LinePaths, attributes : LineAttributes]
    /\ lineResult = Null

\* one queried line taken through the selection's endpoint filter, label and
\* frontage filter, the sub-polygon highlight's check and the metadata count
ClassifyLine ==
    /\ lineResult = Null
    /\ lineResult' =
          [valid |-> bothEndpointsClose(lineFeature, HalfMetreRing, 2),
           usageLabel |-> usageLabelOf(lineFeature.attributes),
           frontageLines |->
              IF bothEndpointsClose(lineFeature, HalfMetreRing, 2)
                THEN frontageLinesOf(<<lineFeature>>) ELSE <<>>,
           isFrontage |-> isFrontage(lineFeature),
           metadataLabel |-> metadataLabelOf(lineFeature)]
    /\ UNCHANGED <<subdivisionVars, subdivisionLayer, currentPolygon, currentFrontageLines,
                   subPolygonData, registryVars, pillarsLayer, completions, clicks,
                   lastClick, lastCompletion, selectionVars, matchEdge, matchLine,
                   matchResult, lineFeature>>

NextLine == ClassifyLine

SpecLine == InitLine /\ [][NextLine]_vars

\* --------------------------------------------- one line across the parcel
\* pairs of map clicks outside the parcel that draw a line between opposite
\* sides: from the left side to the right one 1, 2, 3 and 6 m above the
\* frontage, and from the frontage to the far side
AcrossClicks ==
    {<< <<-3, y>>, <<15, y>> >> : y \in {1, 2, 3, 6}} \cup {<< <<6, -3>>, <<6, 15>> >>}

\* handleSubdivisionClick over the two clicks of a pair
PointsOfClicks(pair) ==
    <<ClassifyClick(pair[1], ParcelRing, 0), ClassifyClick(pair[2], ParcelRing, 1)>>

\* the session once the first parcel has been selected, its frontage query
\* answered, subdivision mode entered and the two clicks of a pair handled
InitAcross ==
    /\ subdivisionMode = TRUE
    /\ currentPolygonGeometry = ParcelRing
    /\ currentPolygonGraphic = ParcelGraphic
    /\ drawingPoints = <<>>
    /\ clicksSinceClear = Null
    /\ \E pair \in AcrossClicks :
          /\ subdivisionLayer = <<LineGraphic(PointsOfClicks(pair))>>
          /\ sessionLines = <<LineGraphic(PointsOfClicks(pair))>>
          /\ lastClick = [mapPoint |-> pair[2], nBefore |-> 1,
                          pointData |-> PointsOfClicks(pair)[2], finalized |-> TRUE]
    /\ subPolygonData = <<>>
    /\ pillarsLayer \in BOOLEAN
    /\ currentPolygon = ParcelGraphic
    /\ currentFrontageLines = FrontageOf(ParcelGraphic)
    /\ LET reg == StartCall([nodes |-> <<>>, clock |-> 0, pending |-> <<>>, last |-> Null],
                            PolygonIdOf(ParcelGraphic), ParcelRing,
                            FrontageOf(ParcelGraphic), "select", pillarsLayer)
       IN  /\ electricalNodes = reg.nodes
           /\ nodeClock = reg.clock
           /\ pendingCalls = reg.pending
           /\ lastAssign = reg.last
    /\ completions = 0
    /\ clicks = 2
    /\ lastCompletion = Null
    /\ pendingQueries = <<>>
    /\ selections = 1
    /\ lastSelection = Null
    /\ lastQuery = Null
    /\ setbackLayer = InitSetback(currentPolygon, currentFrontageLines)
    /\ matchEdge = Null /\ matchLine = Null /\ matchResult = Null
    /\ lineFeature = Null /\ lineResult = Null

\* the subdivision is completed, and the pillar queries are answered
NextAcross ==
    \/ \E throwAt \in ThrowPoints : CompleteSubdivision(throwAt)
    \/ \E k \in 1..Len(pendingCalls), answer \in PillarAnswers : PillarQueryDone(k, answer)

SpecAcross == InitAcross /\ [][NextAcross]_vars

\* ------------------------------------------ the node call on its own
\* one call generateOrFindConnectionNode(polygonGraphic, frontageLines) made
\* directly, with nothing chained on its promise
CallAssign(polygonGraphic, frontageLines) ==
    /\ nodeClock + Len(pendingCalls) < MaxNodeClock
    /\ SetRegistry(StartCall(Registry, PolygonIdOf(polygonGraphic),
                             polygonGraphic.geometry, frontageLines, "direct",
                             pillarsLayer))
    /\ UNCHANGED <<subdivisionVars, subdivisionLayer, currentPolygon, currentFrontageLines,
                   subPolygonData, pillarsLayer, completions, clicks, lastClick,
                   lastCompletion, selectionVars, matchVars>>

InitCall ==
    /\ NothingSelected
    /\ pillarsLayer \in BOOLEAN
    /\ matchEdge = Null /\ matchLine = Null /\ matchResult = Null
    /\ lineFeature = Null /\ lineResult = Null

\* the calls are made for either parcel, with its frontage lines or with none
NextCall ==
    \/ \E polygonGraphic \in {ParcelGraphic, ParcelGraphicB} :
          \E frontageLines \in {FrontageOf(polygonGraphic), SubSeq(<<>>, 1, 0)} :
             CallAssign(polygonGraphic, frontageLines)
    \/ \E k \in 1..Len(pendingCalls), answer \in PillarAnswers : PillarQueryDone(k, answer)

SpecCall == InitCall /\ [][NextCall]_vars

\* ------------------------------------------------------------- properties
\* the parcel of the model is the square ]0,12[ x ]0,12[
InsideParcel(p) == 0 < p[1] /\ p[1] < 12 /\ 0 < p[2] /\ p[2] < 12

\* distance of an inside point to the parcel's boundary
BoundaryDistance(p) == Min2(Min2(p[1], 12 - p[1]), Min2(p[2], 12 - p[2]))

\* the grid points of the parcel's outer ring
RingPoints == {q \in (0..12) \X (0..12) : q[1] \in {0, 12} \/ q[2] \in {0, 12}}

\* q is a point of the outer ring nearest to p
IsNearestRingPoint(q, p) ==
    /\ q \in RingPoints
    /\ \A r \in RingPoints : DistSq(p, q) <= DistSq(p, r)

SnappedToRing(pointData, p) ==
    /\ pointData.type = "boundary"
    /\ pointData.snapped
    /\ IsNearestRingPoint(pointData.point, p)

\* C1: every click handled in subdivision mode is classified as follows: the
\* first point of a line is snapped to the nearest point of the outer ring and
\* tagged boundary wherever the click was; a later click outside the parcel is
\* snapped and tagged boundary; a later click inside the parcel and farther
\* than 5 m from the boundary keeps its position and is tagged midpoint,
\* not snapped.
C1_ClickClassification ==
    lastClick # Null =>
        LET p == lastClick.mapPoint
            d == lastClick.pointData
        IN  /\ lastClick.nBefore = 0 => SnappedToRing(d, p)
            /\ (lastClick.nBefore > 0 /\ ~InsideParcel(p)) => SnappedToRing(d, p)
            /\ (lastClick.nBefore > 0 /\ InsideParcel(p) /\ BoundaryDistance(p) > SnapDistance)
                  => (d.type = "midpoint" /\ d.point = p /\ ~d.snapped)

\* a later click at the centre of the parcel has been kept as a midpoint, and
\* the line's first click, inside and far too, had been snapped
C1_Witness ==
    /\ lastClick # Null
    /\ lastClick.nBefore = 1
    /\ lastClick.mapPoint = <<6, 6>>
    /\ lastClick.pointData.type = "midpoint"
    /\ Len(drawingPoints) = 2
    /\ drawingPoints[1].originalClick = <<6, 6>>
    /\ drawingPoints[1].type = "boundary"

PointsOf(points) == [i \in 1..Len(points) |-> points[i].point]
TagsOf(points) == [i \in 1..Len(points) |-> points[i].type]

\* C2: after a click is appended the running line is finalized iff it has at
\* least 2 points and the point just added is boundary; finalizing stores one
\* more completed line whose path is the accumulated points in click order,
\* empties the accumulator and leaves subdivision mode on; a line of three
\* points tagged boundary, midpoint, boundary is stored as one line of 3 points
\* of type "boundary to midpoint to boundary".
C2_Finalize ==
    [][clicks' = clicks + 1 =>
         LET pts == Append(drawingPoints, lastClick'.pointData)
         IN  IF Len(pts) >= 2 /\ lastClick'.pointData.type = "boundary"
               THEN /\ Len(getSubdivisionLines') = Len(getSubdivisionLines) + 1
                    /\ SubSeq(getSubdivisionLines', 1, Len(getSubdivisionLines))
                          = getSubdivisionLines
                    /\ Last(getSubdivisionLines').paths = PointsOf(pts)
                    /\ Last(getSubdivisionLines').pointCount = Len(pts)
                    /\ TagsOf(pts) = <<"boundary", "midpoint", "boundary">>
                          => Last(getSubdivisionLines').subdivisionType
                                = <<"boundary", "to", "midpoint", "to", "boundary">>
                    /\ drawingPoints' = <<>>
                    /\ subdivisionMode'
               ELSE /\ getSubdivisionLines' = getSubdivisionLines
                    /\ drawingPoints' = pts
                    /\ subdivisionMode'
    ]_vars

\* three clicks (outside, centre, outside) have made exactly one line, of 3
\* points, boundary to midpoint to boundary
C2_Witness ==
    /\ clicks = 3
    /\ lastClick # Null /\ lastClick.mapPoint = <<-3, 6>> /\ lastClick.finalized
    /\ Len(getSubdivisionLines) = 1
    /\ getSubdivisionLines[1].paths = << <<0, 6>>, <<6, 6>>, <<0, 6>> >>
    /\ getSubdivisionLines[1].pointCount = 3
    /\ getSubdivisionLines[1].subdivisionType
          = <<"boundary", "to", "midpoint", "to", "boundary">>
    /\ drawingPoints = <<>>

\* C3: in every state the first point of the line in progress is tagged
\* boundary and the first point of every completed line lies on the parcel's
\* ring; no completed line has fewer than 2 points; after a single click there
\* is no completed line.
C3_FirstPointBoundary ==
    /\ drawingPoints # <<>> => drawingPoints[1].type = "boundary"
    /\ \A i \in 1..Len(getSubdivisionLines) :
          /\ getSubdivisionLines[i].pointCount >= 2
          /\ Len(getSubdivisionLines[i].paths) >= 2
          /\ getSubdivisionLines[i].paths[1] \in RingPoints
    /\ clicks = 1 => Len(getSubdivisionLines) = 0

\* one point has been placed, by a click far inside the parcel
C3_Witness ==
    /\ clicks = 1
    /\ Len(drawingPoints) = 1
    /\ drawingPoints[1].originalClick = <<6, 6>>
    /\ Len(getSubdivisionLines) = 0

\* C4: every run of completeSubdivision that starts with a parent polygon and
\* at least one completed line ends with subdivision mode off, the parent
\* polygon references cleared and the accumulator empty, whether the run
\* succeeds or throws.
C4_CompletionEndsIdle ==
    [][completions' = completions + 1 =>
         /\ ~subdivisionMode'
         /\ currentPolygonGeometry' = NoGeometry
         /\ currentPolygonGraphic' = Null
         /\ drawingPoints' = <<>>
    ]_vars

\* the sub-polygon graphics of the subdivision layer
SubPolygonGraphics == SelectSeq(subdivisionLayer, LAMBDA g : g.kind = "subPolygon")

\* C5: a run of completeSubdivision that throws leaves the stored sub-polygon
\* data, the sub-polygon graphics and the node registry as they were before
\* the run.
C5_NoPartialCommit ==
    [][(completions' = completions + 1 /\ lastCompletion'.outcome = "threw") =>
         /\ subPolygonData' = subPolygonData
         /\ SubPolygonGraphics' = SubPolygonGraphics
         /\ electricalNodes' = electricalNodes
    ]_vars

\* a cut answer that counts as failed: null, or an empty list
CutFailed(answer) == answer.isNull \/ Len(answer.polygons) = 0

\* the list after one line, given the engine's answer for every polygon of
\* the list before it: each polygon replaced in place
ListAfterLine(polygons, answers) ==
    FlattenSeq([i \in 1..Len(polygons) |->
                   IF CutFailed(answers[i]) THEN <<polygons[i]>>
                   ELSE answers[i].polygons])

\* the list after the first n lines of a run
RECURSIVE ListAfterLines(_, _, _)
ListAfterLines(parentGeometry, trace, n) ==
    IF n = 0 THEN <<parentGeometry>>
    ELSE ListAfterLine(ListAfterLines(parentGeometry, trace, n - 1), trace[n])

\* the run got past the cut loop
CutLoopDone == lastCompletion # Null /\ lastCompletion.at \notin {"guard", "cut"}

\* C6: the cut loop starts from the list of the parent geometry alone and
\* takes the completed lines in the order drawn; for each line every polygon
\* of the list is replaced in place by its cut results, or kept when the cut
\* answers null or an empty list; the list is never empty; when every cut
\* fails the list is the parent geometry alone.
C6_CutLoop ==
    CutLoopDone =>
        /\ Len(lastCompletion.trace) = Len(lastCompletion.lines)
        /\ \A n \in 1..Len(lastCompletion.trace) :
              Len(lastCompletion.trace[n])
                 = Len(ListAfterLines(lastCompletion.parentGeometry, lastCompletion.trace, n - 1))
        /\ lastCompletion.subPolygons
              = ListAfterLines(lastCompletion.parentGeometry, lastCompletion.trace,
                               Len(lastCompletion.trace))
        /\ Len(lastCompletion.subPolygons) >= 1
        /\ (\A n \in 1..Len(lastCompletion.trace) :
               \A i \in 1..Len(lastCompletion.trace[n]) :
                  CutFailed(lastCompletion.trace[n][i]))
              => lastCompletion.subPolygons = <<lastCompletion.parentGeometry>>

\* two lines: the first cut the parcel in two, the second cut one of the two
\* pieces and failed on the other, which was kept in its place
C6_Witness ==
    /\ CutLoopDone
    /\ Len(lastCompletion.lines) = 2
    /\ Len(lastCompletion.subPolygons) = 3
    /\ \E i \in 1..2 :
          /\ CutFailed(lastCompletion.trace[2][i])
          /\ ~CutFailed(lastCompletion.trace[2][3 - i])
          /\ lastCompletion.subPolygons[IF i = 1 THEN 1 ELSE 3]
                = lastCompletion.trace[1][1].polygons[i]

\* the positions of the parent frontage lines the edge matches
MatchesOf(edge, parentFrontageLines) ==
    {j \in 1..Len(parentFrontageLines) :
        edgeMatchesFrontageLine(edge, parentFrontageLines[j].geometry)}

\* the frontage an edge inherits: none, or one segment on the edge with the
\* attributes of the first parent line it matches
InheritedBy(edge, parentFrontageLines) ==
    IF MatchesOf(edge, parentFrontageLines) = {} THEN <<>>
    ELSE LET first == CHOOSE j \in MatchesOf(edge, parentFrontageLines) :
                         \A k \in MatchesOf(edge, parentFrontageLines) : j <= k
         IN  <<[geometry |-> <<edge.start, edge.end>>,
                attributes |-> parentFrontageLines[first].attributes]>>

\* the edges of a ring, in ring order
EdgesOf(ring) == [i \in 1..(Len(ring) - 1) |-> [start |-> ring[i], end |-> ring[i + 1]]]

\* the run got past frontage propagation
FrontageDone == lastCompletion # Null /\ lastCompletion.at \notin {"guard", "cut"}

\* C7: the frontage of every sub-polygon is, edge by edge in ring order, one
\* segment for every edge that matches at least one parent frontage line and
\* none for the others; the segment's geometry is the edge and its attributes
\* are those of the first parent line that matches; with no parent frontage
\* lines no sub-polygon has frontage.
C7_FrontagePropagation ==
    FrontageDone =>
        \A r \in 1..Len(lastCompletion.results) :
            LET result == lastCompletion.results[r]
                edges == EdgesOf(result.geometry)
                parent == lastCompletion.parentFrontageLines
            IN  /\ result.geometry = lastCompletion.subPolygons[r]
                /\ result.frontageLines
                      = FlattenSeq([i \in 1..Len(edges) |-> InheritedBy(edges[i], parent)])
                /\ Len(result.frontageLines) <= Len(edges)
                /\ Len(parent) = 0 => result.frontageLines = <<>>

\* a sub-polygon has an edge that matches two parent frontage lines and has
\* inherited the attributes of the first of them
C7_Witness ==
    /\ FrontageDone
    /\ \E r \in 1..Len(lastCompletion.results) :
          \E i \in 1..Len(lastCompletion.results[r].frontageLines) :
             LET segment == lastCompletion.results[r].frontageLines[i]
                 edge == [start |-> segment.geometry[1], end |-> segment.geometry[2]]
             IN  /\ Cardinality(MatchesOf(edge, lastCompletion.parentFrontageLines)) >= 2
                 /\ segment.attributes = FrontB.attributes

\* the reference line has a point within 2 m of p: the model's points have
\* whole coordinates, so the squared distance is compared with 4
WithinTwoMetres(p, line) == FracLeq(PathDistSq(line, p), <<4, 1>>)

\* C8: the matcher returns true iff the edge's start point and its end point
\* are both within 2.0 m of the reference line, 2.0 m included, wherever the
\* rest of the edge lies; the result is the same with start and end exchanged.
C8_EdgeMatcher ==
    matchResult # Null =>
        /\ matchResult.value
              <=> (WithinTwoMetres(matchEdge.start, matchLine)
                   /\ WithinTwoMetres(matchEdge.end, matchLine))
        /\ matchResult.swapped = matchResult.value

\* an edge matched with one end exactly 2 m from the reference line and its
\* middle more than 3 m away from it
C8_Witness ==
    /\ matchResult # Null
    /\ matchResult.value
    /\ matchLine = << <<0, 0>>, <<5, 10>>, <<10, 0>> >>
    /\ matchEdge = [start |-> <<12, 0>>, end |-> <<0, 0>>]

\* how often the polygon id occurs in a served list
Occurrences(properties, polygonId) ==
    Cardinality({i \in 1..Len(properties) : properties[i] = polygonId})

\* the call resolved last came right after another call for the same parcel
\* with the same frontage: no map click and no other call in between
SecondCallInARow ==
    /\ lastAssign # Null
    /\ lastAssign.quiet
    /\ lastAssign.prior # <<>>
    /\ lastAssign.prior[1].polygonId = lastAssign.polygonId
    /\ lastAssign.prior[1].frontageLines = lastAssign.frontageLines
    /\ Len(lastAssign.frontageLines) > 0

\* C9: two calls of generateOrFindConnectionNode in a row for the same parcel
\* with the same non-empty frontage return the node with the same id, be it
\* a shared node or a potential node, and the node returned lists the parcel
\* exactly once.
C9_AssignTwice ==
    SecondCallInARow =>
        /\ lastAssign.id = lastAssign.prior[1].id
        /\ Occurrences(lastAssign.node.properties, lastAssign.polygonId) = 1

\* the call resolved last ran with no map click and no other call between
\* its start and its end, and no non-potential node served the parcel at its
\* start
UnservedCall ==
    /\ lastAssign # Null
    /\ lastAssign.quiet
    /\ \A i \in 1..Len(lastAssign.nodesAtStart) :
          ~(~lastAssign.nodesAtStart[i].isPotential
            /\ includes(lastAssign.nodesAtStart[i].properties, lastAssign.polygonId))

\* the candidates of the call: [id, position] of the non-potential nodes in
\* memory inside the frontage buffer and of the pillars the query returned
CandidatesInMemory ==
    {[id |-> lastAssign.nodesAtStart[i].id, position |-> lastAssign.nodesAtStart[i].position] :
        i \in {j \in 1..Len(lastAssign.nodesAtStart) :
                  /\ ~lastAssign.nodesAtStart[j].isPotential
                  /\ InFrontageBuffer(unionFrontageLines(lastAssign.frontageLines),
                                      lastAssign.nodesAtStart[j].position)}}

CandidatesReturned ==
    IF lastAssign.queried /\ lastAssign.answer.ok
      THEN {[id |-> lastAssign.answer.features[i].pick_id,
             position |-> lastAssign.answer.features[i].geometry] :
               i \in 1..Len(lastAssign.answer.features)}
      ELSE {}

Candidates == CandidatesInMemory \cup CandidatesReturned

DistanceToFrontage(position) ==
    UnionDistSq(unionFrontageLines(lastAssign.frontageLines), position)

\* C10: when no non-potential node serves the parcel yet, the call returns a
\* candidate at minimum distance from the frontage union among the
\* non-potential nodes in memory inside the 30 m buffer and the pillars the
\* query returned; the node returned lists the parcel; it is not a potential
\* node; a new potential node is returned only when there is no candidate.
C10_ClosestCandidate ==
    UnservedCall =>
        IF Candidates # {}
          THEN /\ \E c \in Candidates :
                     /\ c.id = lastAssign.id
                     /\ \A d \in Candidates :
                           FracLeq(DistanceToFrontage(c.position),
                                   DistanceToFrontage(d.position))
               /\ ~lastAssign.node.isPotential
               /\ Occurrences(lastAssign.node.properties, lastAssign.polygonId) = 1
          ELSE /\ lastAssign.node.isPotential
               /\ \A i \in 1..Len(lastAssign.nodesAtStart) :
                     lastAssign.nodesAtStart[i].id # lastAssign.id
               /\ lastAssign.node.properties = <<lastAssign.polygonId>>

\* the second parcel was given the pillar between the parcels, tracked since
\* it was returned for the first parcel, which took the closer pillar
C10_Witness ==
    /\ UnservedCall
    /\ lastAssign.polygonId = PolygonIdOf(ParcelGraphicB)
    /\ lastAssign.id = Pil2.pick_id
    /\ Cardinality(CandidatesInMemory) = 1
    /\ \E i \in 1..Len(lastAssign.nodesAtStart) :
          /\ lastAssign.nodesAtStart[i].id = Pil1.pick_id
          /\ includes(lastAssign.nodesAtStart[i].properties, PolygonIdOf(ParcelGraphic))

\* the call res ran with no map click and no other call between its start
\* and its end, and no non-potential node served its parcel at its start
QuietUnserved(res) ==
    /\ res.quiet
    /\ Len(res.frontageLines) > 0
    /\ \A i \in 1..Len(res.nodesAtStart) :
          ~(~res.nodesAtStart[i].isPotential
            /\ includes(res.nodesAtStart[i].properties, res.polygonId))

\* ids of the candidates of the call res: the non-potential nodes in memory
\* inside its frontage buffer and the pillars its query returned
CandidateIdsOf(res) ==
    {res.nodesAtStart[i].id :
        i \in {j \in 1..Len(res.nodesAtStart) :
                  /\ ~res.nodesAtStart[j].isPotential
                  /\ InFrontageBuffer(unionFrontageLines(res.frontageLines),
                                      res.nodesAtStart[j].position)}}
    \cup (IF res.queried /\ res.answer.ok
            THEN {res.answer.features[i].pick_id : i \in 1..Len(res.answer.features)}
            ELSE {})

\* the two calls resolved last were for two different parcels, one right
\* after the other
TwoParcelsInARow ==
    /\ lastAssign # Null
    /\ lastAssign.prior # <<>>
    /\ lastAssign.prior[1].polygonId # lastAssign.polygonId
    /\ QuietUnserved(lastAssign)
    /\ QuietUnserved(lastAssign.prior[1])

\* C11: two parcels whose only candidate is one and the same non-potential
\* node both resolve to that node, which then lists both parcel ids; two
\* parcels without any candidate each resolve to a potential node, and the
\* two potential nodes are distinct.
C11_Sharing ==
    TwoParcelsInARow =>
        /\ (/\ Cardinality(CandidateIdsOf(lastAssign)) = 1
            /\ CandidateIdsOf(lastAssign.prior[1]) = CandidateIdsOf(lastAssign))
           => /\ CandidateIdsOf(lastAssign) = {lastAssign.id}
              /\ lastAssign.prior[1].id = lastAssign.id
              /\ ~lastAssign.node.isPotential
              /\ includes(lastAssign.node.properties, lastAssign.polygonId)
              /\ includes(lastAssign.node.properties, lastAssign.prior[1].polygonId)
        /\ (CandidateIdsOf(lastAssign) = {} /\ CandidateIdsOf(lastAssign.prior[1]) = {})
           => /\ lastAssign.node.isPotential
              /\ lastAssign.prior[1].node.isPotential
              /\ lastAssign.node.id # lastAssign.prior[1].node.id
              /\ lastAssign.node.properties = <<lastAssign.polygonId>>
              /\ lastAssign.prior[1].node.properties = <<lastAssign.prior[1].polygonId>>

\* the pillar between the two parcels was the only candidate of both, and
\* serves both
C11_Witness ==
    /\ TwoParcelsInARow
    /\ CandidateIdsOf(lastAssign) = {Pil2.pick_id}
    /\ CandidateIdsOf(lastAssign.prior[1]) = {Pil2.pick_id}
    /\ lastAssign.id = Pil2.pick_id
    /\ lastAssign.node.properties =
          <<PolygonIdOf(ParcelGraphic), PolygonIdOf(ParcelGraphicB)>>

\* two parcels without any candidate were given two potential nodes
C11_WitnessPotential ==
    /\ TwoParcelsInARow
    /\ CandidateIdsOf(lastAssign) = {}
    /\ CandidateIdsOf(lastAssign.prior[1]) = {}
    /\ lastAssign.node.isPotential

\* the potential nodes of the registry that list the parcel id
PotentialNodesFor(polygonId) ==
    {i \in 1..Len(electricalNodes) :
        /\ electricalNodes[i].isPotential
        /\ includes(electricalNodes[i].properties, polygonId)}

\* the parcel ids that occur in the registry
ServedIds ==
    UNION {{electricalNodes[i].properties[j] : j \in 1..Len(electricalNodes[i].properties)} :
              i \in 1..Len(electricalNodes)}

\* C12: under every interleaving of overlapping assignment calls and
\* selection events, the registry holds at most one potential node whose
\* served list contains a given parcel id.
C12_OnePotentialPerParcel ==
    \A polygonId \in ServedIds : Cardinality(PotentialNodesFor(polygonId)) <= 1

\* a second potential node was created for a parcel that had one, with no
\* map click in between, and the registry holds one for the parcel
C12_Witness ==
    /\ lastAssign # Null
    /\ lastAssign.node.isPotential
    /\ lastAssign.quiet
    /\ \E i \in 1..Len(lastAssign.nodesAtStart) :
          /\ lastAssign.nodesAtStart[i].isPotential
          /\ includes(lastAssign.nodesAtStart[i].properties, lastAssign.polygonId)
    /\ lastAssign.prior # <<>>
    /\ lastAssign.prior[1].polygonId = lastAssign.polygonId
    /\ lastAssign.prior[1].node.isPotential
    /\ Cardinality(PotentialNodesFor(lastAssign.polygonId)) = 1

\* the served list only grew: before is a prefix of after
IsPrefix(before, after) ==
    /\ Len(before) <= Len(after)
    /\ SubSeq(after, 1, Len(before)) = before

\* C13: a non-potential node, once registered, is never removed from the
\* registry, and its served list only grows: no step removes a parcel id
\* from it.
C13_NodesPersist ==
    [][\A i \in 1..Len(electricalNodes) :
          ~electricalNodes[i].isPotential =>
              \E j \in 1..Len(electricalNodes') :
                  /\ electricalNodes'[j].id = electricalNodes[i].id
                  /\ ~electricalNodes'[j].isPotential
                  /\ IsPrefix(electricalNodes[i].properties,
                              electricalNodes'[j].properties)]_vars

\* a pillar registered for the first parcel is still there after the map
\* clicks that followed, and serves both parcels
C13_Witness ==
    /\ selections > 2
    /\ pendingCalls = <<>>
    /\ \E i \in 1..Len(electricalNodes) :
          /\ ~electricalNodes[i].isPotential
          /\ electricalNodes[i].properties =
                <<PolygonIdOf(ParcelGraphic), PolygonIdOf(ParcelGraphicB)>>

\* the non-potential nodes of a node list, in order
NonPotentialOf(nodes) == SelectSeq(nodes, LAMBDA node : ~node.isPotential)

\* C14: every map click outside subdivision mode - on no parcel, on a parcel
\* or on a sub-polygon - removes all potential nodes: at the end of the
\* handler's synchronous part the registry holds no potential node, and its
\* non-potential nodes are those it held before the click, unchanged.
C14_SelectionClearsPotential ==
    [][selections' = selections + 1 =>
          /\ lastSelection'.nodesBefore = electricalNodes
          /\ \A i \in 1..Len(lastSelection'.nodesAfter) :
                ~lastSelection'.nodesAfter[i].isPotential
          /\ lastSelection'.nodesAfter = NonPotentialOf(electricalNodes)]_vars

\* a click on a sub-polygon found a potential node and a pillar in the
\* registry
C14_Witness ==
    /\ lastSelection # Null
    /\ lastSelection.handler = "subPolygon"
    /\ \E i \in 1..Len(lastSelection.nodesBefore) : lastSelection.nodesBefore[i].isPotential
    /\ \E i \in 1..Len(lastSelection.nodesBefore) : ~lastSelection.nodesBefore[i].isPotential
    /\ Len(lastSelection.nodesAfter) < Len(lastSelection.nodesBefore)

\* no cadastral line query and no pillar query is awaiting its answer
NoCallbackPending == pendingQueries = <<>> /\ pendingCalls = <<>>

\* C15: a potential node exists only while its parcel is the active
\* selection: whenever no query and no assignment callback is pending, every
\* potential node of the registry lists the parcel selected at present, also
\* when a parcel's assignment finished after the selection had changed.
C15_PotentialOnlyForSelection ==
    NoCallbackPending =>
        \A i \in 1..Len(electricalNodes) :
            electricalNodes[i].isPotential =>
                /\ currentPolygon # Null
                /\ includes(electricalNodes[i].properties, PolygonIdOf(currentPolygon))

\* C16: selections are not guarded against stale callbacks: every node call
\* made for a selection, once resolved, leaves its own frontage lines in
\* currentFrontageLines, whichever parcel is selected by then; so a state is
\* reachable in which currentPolygon is the second parcel while
\* currentFrontageLines holds the first parcel's frontage lines.
C16_StaleCallbackWrites ==
    [][(lastAssign' # Null /\ lastAssign' # lastAssign) =>
           currentFrontageLines' = lastAssign'.frontageLines]_vars

\* the second parcel is selected, every callback has run, and the frontage
\* lines cached are those of the first parcel
C16_Witness ==
    /\ currentPolygon = ParcelGraphicB
    /\ currentFrontageLines = FrontageOf(ParcelGraphic)
    /\ currentFrontageLines # FrontageOf(ParcelGraphicB)
    /\ NoCallbackPending
    /\ lastAssign # Null
    /\ lastAssign.polygonId = PolygonIdOf(ParcelGraphic)

\* the nodes of the registry, potential or not, that list the parcel id
NodesServing(polygonId) ==
    {i \in 1..Len(electricalNodes) : includes(electricalNodes[i].properties, polygonId)}

\* C17: a parcel has at most one node assignment at a time: whenever no
\* assignment is in flight, each parcel id is in the served list of at most
\* one node of the registry, potential and non-potential nodes together,
\* also when two calls for the same parcel overlapped and the pillar
\* inventory answered them differently.
C17_OneAssignmentPerParcel ==
    NoCallbackPending =>
        \A polygonId \in ServedIds : Cardinality(NodesServing(polygonId)) <= 1

\* the frontage lines of all the results of a completion, in result order
AllFrontageOf(results) ==
    FlattenSeq([i \in 1..Len(results) |-> results[i].frontageLines])

\* C18: when a completion is reported and subdivision mode is left, the node
\* assignment of every sub-polygon with inherited frontage has finished (no
\* call made by the completion still awaits its pillar query), and the one
\* visualization update has run over the frontage of all sub-polygons
\* together.
C18_AssignedBeforeReport ==
    [][(completions' = completions + 1 /\ lastCompletion'.outcome = "ok") =>
          /\ \A k \in 1..Len(pendingCalls') : pendingCalls'[k].caller # "complete"
          /\ Len(AllFrontageOf(lastCompletion'.results)) > 0 =>
                currentFrontageLines' = AllFrontageOf(lastCompletion'.results)]_vars

\* C19: generateOrFindConnectionNode resolves to null if and only if the
\* frontage lines are missing or empty, and then the registry is unchanged;
\* for non-empty frontage lines it resolves to a node of the registry that
\* lists the parcel.
C19_NullOnlyWithoutFrontage ==
    [][(lastAssign' # Null /\ lastAssign' # lastAssign) =>
          /\ (lastAssign'.node = Null) <=> (Len(lastAssign'.frontageLines) = 0)
          /\ lastAssign'.node = Null =>
                /\ electricalNodes' = electricalNodes
                /\ nodeClock' = nodeClock
                /\ pendingCalls' = pendingCalls
          /\ lastAssign'.node # Null =>
                /\ \E i \in 1..Len(electricalNodes') : electricalNodes'[i] = lastAssign'.node
                /\ includes(lastAssign'.node.properties, lastAssign'.polygonId)]_vars

\* a call without frontage lines returned null and left a registry of two
\* nodes as it was
C19_Witness ==
    /\ lastAssign # Null
    /\ lastAssign.node = Null
    /\ lastAssign.frontageLines = <<>>
    /\ lastAssign.nodesAtStart = electricalNodes
    /\ Len(electricalNodes) > 1

\* the first of the parent's objectid, __OBJECTID and OBJECTID that is set
FirstNonNullId(attributes) ==
    IF "objectid" \in DOMAIN attributes THEN attributes["objectid"]
    ELSE IF "__OBJECTID" \in DOMAIN attributes THEN attributes["__OBJECTID"]
    ELSE attributes["OBJECTID"]

\* the sub-polygon graphics a completion added to a layer of n graphics
GraphicsAddedTo(n, layer) == SubSeq(layer, n + 1, Len(layer))

\* a node call for the polygon id and geometry awaits its pillar query, or a
\* node of the registry lists the polygon id
AssignedIn(pending, nodes, polygonId, geometry) ==
    \/ \E c \in 1..Len(pending) :
          pending[c].polygonId = polygonId /\ pending[c].polygonGeometry = geometry
    \/ \E i \in 1..Len(nodes) : includes(nodes[i].properties, polygonId)

IdsKnownToRegistry ==
    ServedIds \cup {pendingCalls[k].polygonId : k \in 1..Len(pendingCalls)}

\* the identifiers given to the sub-polygons stored by the last completion
StoredSubPolygonIds ==
    {SubPolygonId(subPolygonData[k].originalPolygonId, subPolygonData[k].index) :
        k \in 1..Len(subPolygonData)}

\* C21: the node registry knows a sub-polygon under one identifier only,
\* SUB_<parentId>_<index>: every sub-polygon id passed to the registry, at
\* completion or when the sub-polygon is selected by a click later, is the
\* identifier of a stored sub-polygon.
C21_OneIdentifier ==
    \A polygonId \in IdsKnownToRegistry :
        polygonId[1] = "SUB" => polygonId \in StoredSubPolygonIds

\* C22: the frontage lines propagated to the sub-polygons at completion are
\* the frontage lines of the parcel being subdivided, the parent given to
\* enableSubdivisionMode, also when currentFrontageLines was rewritten
\* between the start of the mode and the completion by a frontage query or
\* a visualization callback that finished late.
C22_ParentFrontageAtCompletion ==
    [][(completions' = completions + 1 /\ lastCompletion'.at # "cut") =>
          /\ lastCompletion'.parentFrontageLines = FrontageOf(currentPolygonGraphic)
          /\ \A i \in 1..Len(lastCompletion'.results) :
                lastCompletion'.results[i].frontageLines =
                   calculateSubPolygonFrontage(lastCompletion'.results[i].geometry,
                                               FrontageOf(currentPolygonGraphic))]_vars

\* C23: subdivision mode is entered only when a parcel is selected and
\* frontage lines are cached for it: while no parcel is selected or no
\* frontage line is cached, no step takes the session from idle to drawing.
C23_EnableNeedsFrontage ==
    [][(~subdivisionMode /\ subdivisionMode') =>
          /\ currentPolygon # Null
          /\ Len(currentFrontageLines) > 0]_vars

C25_NoEarlierSubPolygons ==
    [][(\/ subdivisionLayer # <<>> /\ subdivisionLayer' = <<>>
        \/ ~subdivisionMode /\ subdivisionMode') =>
          /\ subPolygonData' = <<>>
          /\ SubPolygonGraphics' = <<>>]_vars

\* the frontage lines of a parcel in the answer of its query: the lines of
\* the answer with both ends at the parcel that classify as frontage
FrontageInAnswer(query) ==
    SelectSeq(query.answer.features,
              LAMBDA f : /\ bothEndpointsClose(f, query.polygonGraphic.geometry, 1)
                         /\ isFrontageLine(f))

\* C26: when the cadastral line query of the parcel now selected has been
\* answered and processed, the cached frontage lines are exactly the frontage
\* lines of that parcel in the answer, the empty list when it has none, and
\* no line cached for an earlier parcel stays.
C26_FrontageReplacedOnSelection ==
    [][(/\ Len(pendingQueries') < Len(pendingQueries)
        /\ lastQuery'.answer.ok
        /\ lastQuery'.polygonGraphic = currentPolygon) =>
          currentFrontageLines' = FrontageInAnswer(lastQuery')]_vars

\* the classes as the claim words them
FrontageByFields(attributes) ==
    \/ /\ "usage_code" \in DOMAIN attributes
       /\ attributes.usage_code \in {JSNumber(1), JSString("1-Y"), JSString("1-N")}
    \/ /\ "render_normal" \in DOMAIN attributes
       /\ attributes.render_normal \in {JSString("1-Y"), JSString("1-N")}
InteriorByFields(attributes) ==
    /\ ~FrontageByFields(attributes)
    /\ "usage_code" \in DOMAIN attributes
    /\ attributes.usage_code = JSNumber(2)

\* the label of the selection follows the fields
LabelFollowsFields ==
    lineResult # Null =>
       /\ lineResult.usageLabel \in {"FRONTAGE", "INTERIOR", "OTHER"}
       /\ (lineResult.usageLabel = "FRONTAGE") = FrontageByFields(lineFeature.attributes)
       /\ (lineResult.usageLabel = "INTERIOR") = InteriorByFields(lineFeature.attributes)

\* the frontage filter of the selection and the check of the sub-polygon
\* highlight agree with the label
FilterAndCheckAgree ==
    lineResult # Null =>
       /\ lineResult.isFrontage = (lineResult.usageLabel = "FRONTAGE")
       /\ lineResult.valid =>
             (lineResult.frontageLines = <<lineFeature>>)
                = (lineResult.usageLabel = "FRONTAGE")

\* the metadata count puts the line under the heading of its label
MetadataAgrees ==
    lineResult # Null =>
       /\ (lineResult.metadataLabel = "Frontage") = (lineResult.usageLabel = "FRONTAGE")
       /\ (lineResult.metadataLabel = "Interior") = (lineResult.usageLabel = "INTERIOR")

\* C27: every boundary line is in exactly one of frontage, interior, other:
\* frontage iff usage_code is 1, "1-Y" or "1-N" or render_normal is "1-Y" or
\* "1-N", interior iff not frontage and usage_code is 2, other otherwise; the
\* selection filter, the sub-polygon highlight check and the metadata count
\* give the same line the same class.
C27_OneClassEverywhere ==
    LabelFollowsFields /\ FilterAndCheckAgree /\ MetadataAgrees

\* the point is within 1.5 m of the parcel, coordinates in half metres: in
\* the parcel, or at most 3 half metres from one of its sides
WithinOneAndAHalf(point) ==
    \/ contains(HalfMetreRing, point)
    \/ \E i \in 1..(Len(HalfMetreRing) - 1) :
          FracLeq(SegDistSq(HalfMetreRing[i], HalfMetreRing[i + 1], point), <<9, 1>>)

\* C28: a queried boundary line goes on to the frontage filter only if the
\* first and the last point of its path are both within 1.5 m, the distance
\* of exactly 1.5 m included, of the selected parcel polygon.
C28_BothEndsNearParcel ==
    lineResult # Null =>
       /\ lineResult.frontageLines # <<>> => lineResult.valid
       /\ lineResult.valid =>
             /\ Len(lineFeature.geometry) >= 2
             /\ WithinOneAndAHalf(lineFeature.geometry[1])
             /\ WithinOneAndAHalf(Last(lineFeature.geometry))
       /\ (/\ Len(lineFeature.geometry) >= 2
           /\ WithinOneAndAHalf(lineFeature.geometry[1])
           /\ WithinOneAndAHalf(Last(lineFeature.geometry))) => lineResult.valid

\* a frontage line kept with one end exactly 1.5 m from the parcel
C28_Witness ==
    /\ lineResult # Null
    /\ lineFeature.geometry = << <<0, 0>>, <<-3, 10>> >>
    /\ lineResult.valid
    /\ lineResult.frontageLines = <<lineFeature>>

\* the words of "boundary to <tag> to ... to boundary" for the tags of the
\* points between the first and the last
TypeWords(tags) ==
    [j \in 1..(2 * Len(tags) - 1) |->
        IF j % 2 = 0 THEN "to"
        ELSE IF j = 1 \/ j = 2 * Len(tags) - 1 THEN "boundary"
        ELSE tags[(j + 1) \div 2]]

\* C29: the type string of a completed line is "boundary to boundary" iff all
\* its points are boundary, and otherwise "boundary to ", the tags of the
\* points between its ends in order joined by " to ", and " to boundary".
C29_TypeString ==
    [][(clicks' = clicks + 1 /\ lastClick'.finalized) =>
          LET tags == TagsOf(Append(drawingPoints, lastClick'.pointData))
              type == Last(getSubdivisionLines').subdivisionType
          IN  /\ (type = <<"boundary", "to", "boundary">>)
                    = (\A i \in 1..Len(tags) : tags[i] = "boundary")
              /\ (\E i \in 1..Len(tags) : tags[i] # "boundary") => type = TypeWords(tags)
    ]_vars

\* a line through the centre ended by a click that snapped to the right side
C29_Witness ==
    /\ lastClick # Null /\ lastClick.finalized /\ lastClick.mapPoint = <<10, 6>>
    /\ Last(getSubdivisionLines).pointCount = 3
    /\ Last(getSubdivisionLines).subdivisionType
          = <<"boundary", "to", "midpoint", "to", "boundary">>

\* the accumulator and the completed lines a sequence of map clicks yields,
\* handled one after the other from the drawing state given
RECURSIVE Replay(_, _, _, _)
Replay(mapPoints, polygonGeometry, points, lines) ==
    IF mapPoints = <<>> THEN [points |-> points, lines |-> lines]
    ELSE LET pts == Append(points, ClassifyClick(Head(mapPoints), polygonGeometry,
                                                 Len(points)))
         IN  IF FinalizeCondition(pts)
               THEN Replay(Tail(mapPoints), polygonGeometry, <<>>,
                           Append(lines, LineGraphic(pts)))
               ELSE Replay(Tail(mapPoints), polygonGeometry, pts, lines)

\* C30: drawing is deterministic and clearSubdivisions resets it completely:
\* whatever was clicked before the clear, and wherever the clear came (in the
\* middle of a line too), the completed lines after it are those the clicks
\* made since yield in a session where nothing has been drawn.
C30_ClearThenRedraw ==
    clicksSinceClear # Null =>
       getSubdivisionLines
          = Replay(clicksSinceClear.clicks, currentPolygonGeometry, <<>>, <<>>).lines

\* two clicks, a clear, and the two clicks that draw the line across
C30_Witness ==
    /\ clicksSinceClear # Null
    /\ clicks = 4
    /\ clicksSinceClear.clicks = << <<-3, 6>>, <<10, 6>> >>
    /\ Len(getSubdivisionLines) = 1
    /\ getSubdivisionLines[1].paths = << <<0, 6>>, <<12, 6>> >>

\* the frontage edge of the first parcel is an edge of the ring
HasFrontageEdge(ring) ==
    \E i \in 1..(Len(ring) - 1) :
       {ring[i], ring[i + 1]} = {FrontA.geometry[1], FrontA.geometry[2]}

\* the point is within 2 m of the frontage edge of the first parcel
NearFrontageEdge(point) ==
    FracLeq(SegDistSq(FrontA.geometry[1], FrontA.geometry[2], point), <<4, 1>>)

\* an edge of the ring has both ends within 2 m of the frontage edge
HasEdgeAlongFrontage(ring) ==
    \E i \in 1..(Len(ring) - 1) : NearFrontageEdge(ring[i]) /\ NearFrontageEdge(ring[i + 1])

\* C31: the square parcel with its one full frontage edge, cut by a line
\* between two points of opposite sides that the engine cuts along, gives two
\* sub-polygons; the one that has the frontage edge inherits a frontage
\* segment, every inherited segment has both ends within 2 m of that edge, and
\* a sub-polygon none of whose edges lies along the frontage within that
\* tolerance inherits none.
C31_CutPropagation ==
    [][(/\ completions' = completions + 1
        /\ lastCompletion'.at # "cut"
        /\ ~CutFailed(lastCompletion'.trace[1][1])) =>
          /\ Len(lastCompletion'.results) = 2
          /\ \A r \in 1..2 :
                LET result == lastCompletion'.results[r]
                IN  /\ HasFrontageEdge(result.geometry) => Len(result.frontageLines) > 0
                    /\ \A i \in 1..Len(result.frontageLines) :
                          /\ NearFrontageEdge(result.frontageLines[i].geometry[1])
                          /\ NearFrontageEdge(result.frontageLines[i].geometry[2])
                    /\ ~HasEdgeAlongFrontage(result.geometry) => result.frontageLines = <<>>
    ]_vars

\* the cut 6 m above the frontage: the piece with the frontage edge inherits
\* that edge and nothing else, the other piece nothing
C31_Witness ==
    /\ lastCompletion # Null /\ lastCompletion.outcome = "ok"
    /\ lastCompletion.lines[1].paths = << <<0, 6>>, <<12, 6>> >>
    /\ Len(lastCompletion.results) = 2
    /\ \E r \in 1..2 :
          /\ HasFrontageEdge(lastCompletion.results[r].geometry)
          /\ Len(lastCompletion.results[r].frontageLines) = 1
          /\ ~HasFrontageEdge(lastCompletion.results[3 - r].geometry)
          /\ lastCompletion.results[3 - r].frontageLines = <<>>

\* the frontage lines a processed answer gives its parcel
FrontageOfAnswer(record) ==
    IF record.answer.ok
      THEN frontageLinesOf(validLinesOf(record.answer.features, record.polygonGraphic))
      ELSE <<>>

\* the layer that shows the zone of a parcel's frontage lines
ZoneLayerOf(record) ==
    <<[geometry |-> SetbackZoneOf(FrontageOfAnswer(record),
                                  record.polygonGraphic.geometry)]>>

\* C32: when a parcel's answer has frontage lines and the engine gives the
\* generator no zone for them (the union or the intersection fails), the
\* setback layer is left empty, the frontage lines are cached and the node
\* assignment is started as for a zone that was made.
C32_FailedZoneIsQuiet ==
    [][(/\ Len(pendingQueries') < Len(pendingQueries)
        /\ Len(FrontageOfAnswer(lastQuery')) > 0
        /\ setbackLayer' # ZoneLayerOf(lastQuery')) =>
          /\ setbackLayer' = <<>>
          /\ currentFrontageLines' = FrontageOfAnswer(lastQuery')
          /\ pendingCalls' =
                StartCall(Registry, PolygonIdOf(lastQuery'.polygonGraphic),
                          lastQuery'.polygonGraphic.geometry,
                          FrontageOfAnswer(lastQuery'), "select", pillarsLayer).pending
          /\ lastAssign' =
                StartCall(Registry, PolygonIdOf(lastQuery'.polygonGraphic),
                          lastQuery'.polygonGraphic.geometry,
                          FrontageOfAnswer(lastQuery'), "select", pillarsLayer).last
    ]_vars

\* the part of C32 that holds: an intersection that answers null leaves the
\* layer empty, and the frontage lines are cached
C32_NullIntersectionIsQuiet ==
    [][(/\ Len(pendingQueries') < Len(pendingQueries)
        /\ Len(FrontageOfAnswer(lastQuery')) = 1
        /\ setbackLayer' = <<>>) =>
          currentFrontageLines' = FrontageOfAnswer(lastQuery')
    ]_vars

\* a corner lot whose union failed: the zone of the parcel selected before is
\* gone, and the cache still holds that parcel's frontage
C32_ThrownUnionReached ==
    /\ lastQuery # Null
    /\ Len(FrontageOfAnswer(lastQuery)) = 2
    /\ setbackLayer = <<>>
    /\ currentFrontageLines # FrontageOfAnswer(lastQuery)
    /\ currentPolygon = lastQuery.polygonGraphic
    /\ pendingQueries = <<>>

\* C39: once the answer for the parcel selected last has been processed and
\* no query is out, the setback layer shows the zone of that parcel's
\* frontage lines, and nothing when the answer gives the parcel no frontage
\* line.
C39_ZoneOfTheSelection ==
    (/\ lastQuery # Null
     /\ pendingQueries = <<>>
     /\ lastQuery.answer.ok
     /\ currentPolygon = lastQuery.polygonGraphic) =>
        setbackLayer = IF Len(FrontageOfAnswer(lastQuery)) > 0
                         THEN ZoneLayerOf(lastQuery)
                         ELSE <<>>

\* the second parcel processed with an answer that has no line of its own,
\* while the layer shows the zone of the first parcel
C39_StaleZoneReached ==
    /\ lastQuery # Null
    /\ pendingQueries = <<>>
    /\ currentPolygon = ParcelGraphicB
    /\ lastQuery.polygonGraphic = ParcelGraphicB
    /\ lastQuery.answer = [ok |-> TRUE, features |-> <<>>]
    /\ setbackLayer = <<[geometry |-> SetbackZoneOf(<<FrontA>>, ParcelRing)]>>

\* C34: a click that is not the first of its line, inside the parcel and at
\* 5 m or less from the boundary, exactly 5 m included, is snapped to the
\* boundary and tagged boundary; it is tagged midpoint only when it is farther
\* than 5 m from the boundary.
C34_SnapUpToFiveMetres ==
    (lastClick # Null /\ lastClick.nBefore > 0 /\ InsideParcel(lastClick.mapPoint)) =>
          IF BoundaryDistance(lastClick.mapPoint) <= SnapDistance
            THEN SnappedToRing(lastClick.pointData, lastClick.mapPoint)
            ELSE lastClick.pointData.type = "midpoint"

\* the part of C34 that holds: such a click is snapped when it is nearer than
\* 5 m, and kept as a midpoint from 5 m on
C34_SnapBelowFiveMetres ==
    (lastClick # Null /\ lastClick.nBefore > 0 /\ InsideParcel(lastClick.mapPoint)) =>
          IF BoundaryDistance(lastClick.mapPoint) < SnapDistance
            THEN SnappedToRing(lastClick.pointData, lastClick.mapPoint)
            ELSE /\ lastClick.pointData.type = "midpoint"
                 /\ lastClick.pointData.point = lastClick.mapPoint

\* a second click exactly 5 m inside the left edge, kept as a midpoint
C34_MidpointAtFiveMetres ==
    /\ lastClick # Null
    /\ lastClick.nBefore = 1
    /\ lastClick.mapPoint = <<5, 6>>
    /\ lastClick.pointData.type = "midpoint"
    /\ ~lastClick.pointData.snapped

\* tags that are one boundary followed by midpoints only
BoundaryThenMidpoints(tags) ==
    /\ Len(tags) >= 1
    /\ tags[1] = "boundary"
    /\ \A i \in 2..Len(tags) : tags[i] = "midpoint"

\* tags of a line: boundary at both ends and midpoints only between them
BoundaryAtEndsOnly(tags) ==
    /\ Len(tags) >= 2
    /\ \A i \in 1..Len(tags) :
          tags[i] = (IF i = 1 \/ i = Len(tags) THEN "boundary" ELSE "midpoint")

\* C35: in every state the accumulator of the line in progress is empty or
\* one boundary point followed by midpoints only, and every line completed
\* has exactly two boundary points, its first and its last, with midpoints
\* only between them: so are the tags of the points it is made of, and so
\* does its stored type string read.
C35_LineShape ==
    /\ [](/\ drawingPoints = <<>> \/ BoundaryThenMidpoints(TagsOf(drawingPoints))
          /\ \A l \in 1..Len(getSubdivisionLines) :
                /\ getSubdivisionLines[l].pointCount >= 2
                /\ Len(getSubdivisionLines[l].paths) = getSubdivisionLines[l].pointCount
                /\ getSubdivisionLines[l].subdivisionType
                      = TypeWords([i \in 1..getSubdivisionLines[l].pointCount |->
                                      "midpoint"]))
    /\ [][(clicks' = clicks + 1 /\ lastClick'.finalized) =>
             BoundaryAtEndsOnly(TagsOf(Append(drawingPoints, lastClick'.pointData)))
       ]_vars

\* a line of three points is stored, boundary, midpoint, boundary, and the
\* next line is in progress with its first point, a click at the centre
\* that was snapped
C35_Witness ==
    /\ Len(getSubdivisionLines) = 1
    /\ getSubdivisionLines[1].pointCount = 3
    /\ getSubdivisionLines[1].subdivisionType
          = <<"boundary", "to", "midpoint", "to", "boundary">>
    /\ Len(drawingPoints) = 1
    /\ drawingPoints[1].originalClick = <<6, 6>>
    /\ TagsOf(drawingPoints) = <<"boundary">>

\* C36: a run of completeSubdivision that is not refused cuts the parent by
\* the lines drawn since subdivision mode was entered for it, and by no line
\* drawn in a session that was left before.
C36_OnlyLinesOfTheSession ==
    [][(completions' = completions + 1) => lastCompletion'.lines = sessionLines]_vars

\* a line is drawn, the mode is left and entered again, and a run made
\* before any line of the new session is drawn has taken the line of the
\* session before
C36_EarlierLineApplied ==
    /\ lastCompletion # Null
    /\ lastCompletion.at = "frontage"
    /\ subdivisionMode
    /\ sessionLines = <<>>
    /\ Len(lastCompletion.lines) = 1
    /\ lastCompletion.lines[1].paths = << <<0, 6>>, <<12, 6>> >>

\* C33: a call whose pillar query was rejected is resolved all the same, as
\* a call whose query found no pillar: to the nearest of the non-potential
\* nodes that were in memory inside the frontage buffer when the call
\* started, which then lists the parcel, or, when there was none, to a
\* potential node created for the parcel by this call.
C33_RejectedQueryDegrades ==
    (lastAssign # Null /\ lastAssign.queried /\ ~lastAssign.answer.ok) =>
        /\ lastAssign.node # Null
        /\ IF CandidatesInMemory # {}
             THEN /\ \E c \in CandidatesInMemory :
                        /\ c.id = lastAssign.id
                        /\ \A d \in CandidatesInMemory :
                              FracLeq(DistanceToFrontage(c.position),
                                      DistanceToFrontage(d.position))
                  /\ ~lastAssign.node.isPotential
                  /\ includes(lastAssign.node.properties, lastAssign.polygonId)
             ELSE /\ lastAssign.node.isPotential
                  /\ \A i \in 1..Len(lastAssign.nodesAtStart) :
                        lastAssign.nodesAtStart[i].id # lastAssign.id
                  /\ lastAssign.node.properties = <<lastAssign.polygonId>>

\* the second parcel's query was rejected, and the parcel was given the
\* pillar between the parcels, in memory since the first parcel's call
C33_Witness ==
    /\ lastAssign # Null /\ lastAssign.queried /\ ~lastAssign.answer.ok
    /\ lastAssign.polygonId = PolygonIdOf(ParcelGraphicB)
    /\ lastAssign.id = Pil2.pick_id
    /\ lastAssign.node.properties = <<PolygonIdOf(ParcelGraphicB)>>

\* a parcel's query was rejected with no node in memory, and the parcel was
\* given a potential node
C33_PotentialReached ==
    /\ lastAssign # Null /\ lastAssign.queried /\ ~lastAssign.answer.ok
    /\ lastAssign.nodesAtStart = <<>>
    /\ lastAssign.node.isPotential

\* C37: a click that selects a sub-polygon graphic finds, at the graphic's
\* subIndex in the stored sub-polygon data, the entry made for that graphic:
\* the entry's geometry is the graphic's, and the frontage lines cached by
\* the click are that entry's.
C37_EntryOfTheGraphic ==
    [][(/\ selections' = selections + 1
        /\ lastSelection'.handler = "subPolygon") =>
          /\ subPolygonData[currentPolygon'.attributes.subIndex + 1].geometry
                = currentPolygon'.geometry
          /\ currentFrontageLines'
                = subPolygonData[currentPolygon'.attributes.subIndex + 1].frontageLines
    ]_vars

\* the second parcel has been subdivided after the first, and a click on the
\* first parcel's graphic of index 0 has selected it with the entry stored
\* for the second parcel
C37_EntryOfAnotherParcel ==
    /\ lastSelection # Null /\ lastSelection.handler = "subPolygon"
    /\ completions = 1
    /\ currentPolygon.attributes.subIndex = 0
    /\ currentPolygon.geometry = subdivisionLayer[2].geometry
    /\ subPolygonData[1].geometry = ParcelRingB
    /\ subPolygonData[1].originalPolygonId = OriginalPolygonIdOf(ParcelGraphicB)
    /\ currentPolygon.attributes.originalPolygonId = OriginalPolygonIdOf(ParcelGraphicB)

\* C38: no two nodes of the registry have the same id, whatever the order in
\* which the pillar queries of overlapping calls are answered and whichever
\* pillars they return.
C38_NoTwoNodesWithOneId ==
    \A i, j \in 1..Len(electricalNodes) :
       i # j => electricalNodes[i].id # electricalNodes[j].id

\* the calls for the two sub-polygons of one completion were both out, both
\* queries returned the pillar in front of the parcel, and the pillar,
\* registered by the call that was answered first, serves both sub-polygons
C38_Witness ==
    /\ lastAssign # Null /\ lastAssign.queried
    /\ lastCompletion # Null /\ lastCompletion.outcome = "ok"
    /\ pendingCalls = <<>>
    /\ \E i \in 1..Len(lastAssign.answer.features) :
          lastAssign.answer.features[i] = Pil1
    /\ FindNode(lastAssign.nodesAtStart, Pil1.pick_id) = 0
    /\ lastAssign.id = Pil1.pick_id
    /\ Len(NodeById(electricalNodes, Pil1.pick_id).properties) = 2
    /\ \A p \in 1..2 :
          NodeById(electricalNodes, Pil1.pick_id).properties[p][1] = "SUB"

====
